---- MODULE Spec2Model ----
(***************************************************************************)
(* The flow-graph assembly engine of flowly (frontend/dsl.py over the      *)
(* graph container of core/ir.py).  A procedure is fed to the assembler as *)
(* an ordered stream of control-flow events; every action below is one     *)
(* handler of FlowBuilder / FlowContext, translated from its code.         *)
(***************************************************************************)
EXTENDS Naturals, Sequences, FiniteSets, TLC

\* ------------------------------------------------------------- bounds
MaxStmts == 3
MaxCalls == 4
MaxInvokes == 2
MaxDepth == 4
MaxRuns == 2
MaxThreadStmts == 2

\* ------------------------------------------------------------- inputs
None == "None"
NodeDefs == {"a"}
DecisionDefs == {"d"}
Inline == "inline"
\* The conditions of if / while statements: <<decision, written negated>>.
Tests == {<<"d", TRUE>>, <<Inline, FALSE>>}
\* A loop may also test the reusable decision as it is written.
LoopTests == Tests \cup {<<"d", FALSE>>}
IfTests(p) ==
  IF p = "branch" THEN Tests
  ELSE IF p = "loop" THEN {<<Inline, FALSE>>} ELSE {<<"d", TRUE>>}
\* The procedures fed to the assembler are of three kinds: branching ones,
\* made of steps, ends, returns and decisions; looping ones, made of steps,
\* loops, break / continue and decisions; and, one statement longer, those
\* made of one reusable step, one reusable decision and returns.  A fourth
\* kind, assembled on its own, has decisions called as bare statements and
\* if / while statements whose condition is not a call.
Profiles == {"branch", "loop", "shared"}
Grammar(p) ==
  IF p = "branch" THEN {"step", "call", "end", "return", "if"}
  ELSE IF p = "loop" THEN {"step", "call", "if", "while", "loop", "continue", "break"}
  ELSE IF p = "cond" THEN {"step", "decision", "if", "ifPlain", "whilePlain"}
  ELSE {"call", "return", "if"}
Budget(p) == IF p = "shared" THEN MaxStmts + 1 ELSE MaxStmts

yes_label(def) == IF def \in DecisionDefs THEN "Y" ELSE "Yes"
no_label(def) == IF def \in DecisionDefs THEN "N" ELSE "No"

VARIABLES
  nodes,            \* FlowChart.nodes: node id i is the i-th node added
  edges,            \* FlowChart.edges, in insertion order
  exits,            \* FlowContext._exits: the frontier
  decision_stack,   \* FlowContext._decision_stack
  loop_stack,       \* FlowContext._loop_stack
  used_nodes,       \* FlowContext._used_nodes
  ir_nodes,         \* NodeDef._ir_nodes, per definition
  current_ir_node,  \* NodeDef._current_ir_node, per definition
  ir_node,          \* DecisionDef._ir_node, per definition (0: None)
  frames,           \* open _process_if / _process_while activations
  pc,               \* "building" | "done" | "error"
  last,             \* the statement processed last
  prev,             \* the statement processed before it
  calls,            \* per NodeDef: call sites, their targets and predecessors
  hist,             \* what the procedure has been made of so far
  profile,          \* the kind of procedure being assembled
  ret,              \* the last FlowChart.add_node / add_edge call and its outcome
  registry,         \* _subflow_registry: the SubflowBuilder objects
  builders,         \* the FlowBuilder objects, with the links of their charts
  build_stack,      \* the nested FlowBuilder._build activations
  multi,            \* what FlowBuilder.multi_chart returned
  run,              \* the number of the @Flow decoration that is running
  threads,          \* two @Flow decorations running in two threads
  mfc,              \* a MultiFlowChart and the last call made on it
  ast_builder,      \* an ASTFlowBuilder
  runner,           \* a FlowRunner and the last call made on it
  static_builder,   \* a StaticFlowBuilder
  tracer            \* a FlowTracer

\* The assembler's own state besides the chart, and the state of the library
\* around it, which the assembly of one procedure leaves alone.
ctx_vars == <<exits, decision_stack, loop_stack, used_nodes, ir_nodes,
              current_ir_node, ir_node, frames, pc, last, prev, calls, hist, profile>>
sub_vars == <<registry, builders, build_stack, multi>>
ext_vars == <<run, threads, mfc, ast_builder, runner, static_builder, tracer>>
lib_vars == <<ret, sub_vars, ext_vars>>
vars == <<nodes, edges, ctx_vars, lib_vars>>

\* ------------------------------------------------------------ helpers
Top(s) == s[Len(s)]
Pop(s) == SubSeq(s, 1, Len(s) - 1)
Range(s) == {s[i] : i \in DOMAIN s}
MinOf(S) == CHOOSE i \in S : \A j \in S : i <= j

\* A frontier entry: a concrete IR node, or a NodeDef resolved when connected.
NodeExit(n, l) == [is_def |-> FALSE, ref |-> n, def |-> None, label |-> l]
DefExit(def, l) == [is_def |-> TRUE, ref |-> 0, def |-> def, label |-> l]

\* ------------------------------------------------- core/ir.py: FlowChart
Edge(s, t, l) == [source_id |-> s, target_id |-> t, label |-> l]
IRNode(k, l) == [kind |-> k, label |-> l]

add_node(ns, node) == Append(ns, node)

\* A duplicate check that does not compare the labels.
DuplicateEdge_any_label(es, e) ==
  \E i \in DOMAIN es : /\ es[i].source_id = e.source_id
                       /\ es[i].target_id = e.target_id

DuplicateEdge(es, e) ==
  \E i \in DOMAIN es : /\ es[i].source_id = e.source_id
                       /\ es[i].target_id = e.target_id
                       /\ es[i].label = e.label

\* An add_edge without the duplicate check.
add_edge_always(es, e) == Append(es, e)

add_edge(es, e) == IF DuplicateEdge(es, e) THEN es ELSE Append(es, e)

OutEdges(es, n) == {i \in DOMAIN es : es[i].source_id = n}
InEdges(es, n) == {i \in DOMAIN es : es[i].target_id = n}
HasEdge(es, s, t, l) == \E i \in DOMAIN es : es[i] = Edge(s, t, l)

\* ------------------------------------------------ frontend/dsl.py: NodeDef
\* The assembly state a connection works on: the chart, the instance lists,
\* and the record of which target each call site's entry was resolved against.
create_new_node(st, def) ==
  LET n == Len(st.nodes) + 1
  IN [st EXCEPT !.nodes = add_node(st.nodes, IRNode("Process", def)),
                !.ir_nodes[def] = Append(st.ir_nodes[def], n),
                !.node = n]

\* Whether the scan of _get_node_for_target accepts instance n for target_id.
Reusable(es, n, target_id) ==
  \/ OutEdges(es, n) = {}
  \/ \E i \in OutEdges(es, n) : es[i].target_id = target_id

\* A scan that never looks at the outgoing edges: the first instance fits.
get_node_for_target_first(st, def, target_id) ==
  IF st.ir_nodes[def] # <<>> THEN [st EXCEPT !.node = st.ir_nodes[def][1]]
  ELSE create_new_node(st, def)

get_node_for_target(st, def, target_id) ==
  LET irs == st.ir_nodes[def]
      fit == {i \in DOMAIN irs : Reusable(st.edges, irs[i], target_id)}
  IN IF fit # {} THEN [st EXCEPT !.node = irs[MinOf(fit)]]
     ELSE create_new_node(st, def)

get_or_create_node(st, def) ==
  IF st.ir_nodes[def] = <<>> THEN create_new_node(st, def)
  ELSE [st EXCEPT !.node = Top(st.ir_nodes[def])]

\* ------------------------------------------- frontend/dsl.py: FlowContext
resolve_exit_node(st, exit_item, target_id) ==
  IF exit_item.is_def
  THEN LET r == get_node_for_target(st, exit_item.def, target_id)
       IN [r EXCEPT !.targets[exit_item.def] = Append(@, target_id)]
  ELSE [st EXCEPT !.node = exit_item.ref]

\* One pass of `for exit_item in exits`: resolve, then add the edge, labelled
\* with the entry's pending label (keep_label) or unlabelled (back-edges).
RECURSIVE connect_from(_, _, _, _, _)
connect_from(st, xs, i, target_id, keep_label) ==
  IF i > Len(xs) THEN st
  ELSE LET r == resolve_exit_node(st, xs[i], target_id)
           l == IF keep_label THEN xs[i].label ELSE None
           e == Edge(r.node, target_id, l)
       IN connect_from([r EXCEPT !.edges = add_edge(r.edges, e),
                                 !.srcs = @ \cup {<<r.node, l>>}],
                       xs, i + 1, target_id, keep_label)

connect_exits_to_target(st, xs, target_id) == connect_from(st, xs, 1, target_id, TRUE)
connect_back_edges(st, xs, target_id) == connect_from(st, xs, 1, target_id, FALSE)

\* The chart and the definitions' instance state, as a connection sees them.
State(ns) == [nodes |-> ns, edges |-> edges, ir_nodes |-> ir_nodes,
              targets |-> calls.targets, srcs |-> {}, node |-> 0]

\* A finally block that leaves the instances of the definitions in place.
reset_nodes_kept(irs, used) == irs

\* NodeDef._reset / DecisionDef._reset over ctx._used_nodes (the finally block).
reset_nodes(irs, used) == [x \in NodeDefs |-> IF x \in used THEN <<>> ELSE irs[x]]
reset_current(cur, used) == [x \in NodeDefs |-> IF x \in used THEN 0 ELSE cur[x]]
reset_decisions(ir, used) == [x \in DecisionDefs |-> IF x \in used THEN 0 ELSE ir[x]]

\* ------------------------------------------------------- the event record
ConnectEvs == {"step", "call", "end", "decision", "if", "while", "loop", "finish"}
NoEv == [ev |-> "start", tgt |-> 0, node |-> 0, lbl |-> None, two |-> FALSE,
         from |-> <<>>, a |-> <<>>, b |-> <<>>, ne |-> 0, nn |-> 0, dead |-> {},
         def |-> None, neg |-> FALSE, stack |-> <<>>]
\* Event ev that connected the frontier to tgt (0: connected nothing).
Ev(ev, tgt) == [NoEv EXCEPT !.ev = ev, !.tgt = tgt, !.from = exits,
                            !.ne = Len(edges), !.nn = Len(nodes)]

\* The nodes a terminated path consists of at its end: the frontier's nodes.
FrontierNodes(xs) ==
  {IF xs[i].is_def THEN current_ir_node[xs[i].def] ELSE xs[i].ref : i \in DOMAIN xs}

\* No call of the graph container's interface has been made.
NoCall == [op |-> "none"]

\* multi_chart has not been read.
NoMulti == [root |-> None]

\* The first decoration runs alone, and no other part of the library is used.
ExtIdle ==
  /\ run = 1
  /\ threads = NoCall
  /\ mfc = NoCall
  /\ ast_builder = NoCall
  /\ runner = NoCall
  /\ static_builder = NoCall
  /\ tracer = NoCall

\* No subflow is defined and no flow is being built.
SubIdle ==
  /\ registry = <<>>
  /\ builders = <<>>
  /\ build_stack = <<>>
  /\ multi = NoMulti

\* ---------------------------------------------------------------- Init
\* FlowBuilder._build up to the try block: a fresh chart and context, the
\* Start node, and the frontier [(start, None)].
Init ==
  /\ nodes = <<IRNode("Start", "F")>>
  /\ edges = <<>>
  /\ exits = <<NodeExit(1, None)>>
  /\ decision_stack = <<>>
  /\ loop_stack = <<>>
  /\ used_nodes = {}
  /\ ir_nodes = [x \in NodeDefs |-> <<>>]
  /\ current_ir_node = [x \in NodeDefs |-> 0]
  /\ ir_node = [x \in DecisionDefs |-> 0]
  /\ frames = <<>>
  /\ pc = "building"
  /\ last = NoEv
  /\ prev = NoEv
  /\ calls = [n |-> [x \in NodeDefs |-> 0],
              targets |-> [x \in NodeDefs |-> <<>>],
              preds |-> [x \in NodeDefs |-> {}],
              unreached |-> [x \in NodeDefs |-> 0]]
  /\ hist = [shape |-> "straight", stmts |-> 0, nsteps |-> 0, two_sided |-> {}]
  /\ profile \in Profiles
  /\ ret = NoCall
  /\ SubIdle
  /\ ExtIdle

\* ------------------------------------------------------- action helpers
Chart(st) ==
  /\ nodes' = st.nodes
  /\ edges' = st.edges
  /\ ir_nodes' = st.ir_nodes

Record(e) == last' = e /\ prev' = last

Targets(st) == calls' = [calls EXCEPT !.targets = st.targets]

\* A statement of the procedure may still be fed to the assembler.
\* A statement processed with an empty frontier is unreachable code.
Building(kind) ==
  /\ pc = "building"
  /\ kind \in Grammar(profile)
  /\ hist.stmts < Budget(profile)
  /\ UNCHANGED <<profile, lib_vars>>

Shape(allowed) ==
  IF hist.shape = "straight" /\ "straight" \in allowed THEN "straight"
  ELSE IF hist.shape \in {"straight", "branching"} /\ "branching" \in allowed
       THEN "branching" ELSE "other"

\* An error that surfaces only after the statement has cleared the frontier.
Raise_frontier_cleared ==
  /\ pc' = "error"
  /\ ir_nodes' = reset_nodes(ir_nodes, used_nodes)
  /\ current_ir_node' = reset_current(current_ir_node, used_nodes)
  /\ ir_node' = reset_decisions(ir_node, used_nodes)
  /\ Record(Ev("error", 0))
  /\ exits' = <<>>
  /\ UNCHANGED <<nodes, edges, decision_stack, loop_stack, used_nodes,
                 frames, calls, hist>>

\* An error leaves _build through its finally block (dsl.py 462-468).
Raise ==
  /\ pc' = "error"
  /\ ir_nodes' = reset_nodes(ir_nodes, used_nodes)
  /\ current_ir_node' = reset_current(current_ir_node, used_nodes)
  /\ ir_node' = reset_decisions(ir_node, used_nodes)
  /\ Record(Ev("error", 0))
  /\ UNCHANGED <<nodes, edges, exits, decision_stack, loop_stack, used_nodes,
                 frames, calls, hist>>

\* The sources an End node was connected from, and the End node itself.
Terminated(es, n) == {n} \cup {es[i].source_id : i \in InEdges(es, n)}

\* ------------------------------------------------------------- actions
\* flow.step(label): an inline Process node.
Step ==
  /\ Building("step")
  /\ LET n == Len(nodes) + 1
         st == connect_exits_to_target(
                 State(add_node(nodes, IRNode("Process", "S"))), exits, n)
     IN /\ Chart(st)
        /\ Targets(st)
        /\ exits' = <<NodeExit(n, None)>>
        /\ Record(Ev("step", n))
  /\ hist' = [hist EXCEPT !.stmts = @ + 1, !.shape = Shape({"straight", "branching"}),
                          !.nsteps = @ + 1]
  /\ UNCHANGED <<decision_stack, loop_stack, used_nodes, current_ir_node,
                 ir_node, frames, pc>>

\* NodeDef.__call__ -> FlowContext._add_process_node(node_def).
add_process_node(def) ==
  LET g == get_or_create_node(State(nodes), def)
      st == connect_exits_to_target(g, exits, g.node)
  IN /\ Chart(st)
     /\ calls' = [calls EXCEPT !.targets = st.targets, !.n[def] = @ + 1,
                               !.preds[def] = @ \cup st.srcs,
                               !.unreached[def] = IF exits = <<>> THEN @ + 1 ELSE @]
     /\ current_ir_node' = [current_ir_node EXCEPT ![def] = g.node]
     /\ used_nodes' = used_nodes \cup {def}

CallNode(def) ==
  /\ Building("call")
  /\ add_process_node(def)
  /\ exits' = <<DefExit(def, None)>>
  /\ Record(Ev("call", get_or_create_node(State(nodes), def).node))
  /\ hist' = [hist EXCEPT !.stmts = @ + 1, !.shape = Shape({"straight", "branching"}),
                          !.nsteps = @ + 1]
  /\ UNCHANGED <<decision_stack, loop_stack, ir_node, frames, pc>>

\* flow.end(label): an explicit End node; the path is terminated.
End ==
  /\ Building("end")
  /\ LET n == Len(nodes) + 1
         st == connect_exits_to_target(
                 State(add_node(nodes, IRNode("End", "End"))), exits, n)
     IN /\ Chart(st)
        /\ Targets(st)
        /\ exits' = <<>>
        /\ Record([Ev("end", n) EXCEPT !.dead = Terminated(st.edges, n)])
  /\ hist' = [hist EXCEPT !.stmts = @ + 1, !.shape = Shape({"branching"})]
  /\ UNCHANGED <<decision_stack, loop_stack, used_nodes, current_ir_node,
                 ir_node, frames, pc>>

\* ast.Return in _process_statement (495-500): the frontier is cleared.  A
\* returned call, `return flow.end(...)`, is executed first: that is End.
Return ==
  /\ Building("return")
  /\ exits' = <<>>
  /\ Record([Ev("return", 0) EXCEPT !.dead = FrontierNodes(exits)])
  /\ hist' = [hist EXCEPT !.stmts = @ + 1, !.shape = "other"]
  /\ UNCHANGED <<nodes, edges, ir_nodes, calls, decision_stack, loop_stack,
                 used_nodes, current_ir_node, ir_node, frames, pc>>

\* DecisionDef._get_or_create_node: the node of a decision definition.  An
\* inline flow.decision(...) makes a new DecisionDef, hence a new node.
DecisionIR(def) == IF def \in DecisionDefs THEN ir_node[def] ELSE 0
DecisionTarget(def) == IF DecisionIR(def) = 0 THEN Len(nodes) + 1 ELSE DecisionIR(def)
DecisionNodes(def) ==
  IF DecisionIR(def) = 0 THEN add_node(nodes, IRNode("Decision", def)) ELSE nodes

\* FlowContext._add_decision_node, but for the push on the decision stack.
add_decision_node(def) ==
  LET n == DecisionTarget(def)
      st == connect_exits_to_target(State(DecisionNodes(def)), exits, n)
  IN /\ Chart(st)
     /\ Targets(st)
     /\ ir_node' = IF def \in DecisionDefs THEN [ir_node EXCEPT ![def] = n]
                   ELSE ir_node
     /\ used_nodes' = used_nodes \cup {def}

\* The branch labels of _process_if / _process_while (dsl.py 588-596, 702-710).
body_label(def, negated) == IF negated THEN no_label(def) ELSE yes_label(def)
else_label(def, negated) == IF negated THEN yes_label(def) ELSE no_label(def)

Frame(kind, def, n, negated) ==
  [kind |-> kind, phase |-> IF kind = "if" THEN "then" ELSE "body", node |-> n,
   def |-> def, negated |-> negated, body_label |-> body_label(def, negated),
   else_label |-> else_label(def, negated), all_exits |-> <<>>,
   then_dead |-> {}]

\* _process_if up to the start of the then-body (dsl.py 565-603): the
\* condition's decision is pushed by _add_decision_node and popped at once.
IfEnter(cond, negated) ==
  /\ Building("if")
  /\ add_decision_node(cond)
  /\ exits' = <<NodeExit(DecisionTarget(cond), body_label(cond, negated))>>
  /\ frames' = Append(frames, Frame("if", cond, DecisionTarget(cond), negated))
  /\ Record([Ev("if", DecisionTarget(cond)) EXCEPT !.node = DecisionTarget(cond),
                                                  !.def = cond, !.neg = negated])
  /\ hist' = [hist EXCEPT !.stmts = @ + 1, !.shape = Shape({"branching"})]
  /\ UNCHANGED <<decision_stack, loop_stack, current_ir_node, pc>>

\* The nodes of the path that the body just processed terminated, if it did.
BodyDead == IF last.ev \in {"end", "return"} THEN last.dead ELSE {}

\* _process_if between the bodies (dsl.py 604-608).
ElseEnter ==
  /\ pc = "building"
  /\ UNCHANGED <<profile, lib_vars>>
  /\ frames # <<>>
  /\ Top(frames).kind = "if" /\ Top(frames).phase = "then"
  /\ LET f == Top(frames)
     IN /\ frames' = Append(Pop(frames),
                       [f EXCEPT !.phase = "else", !.all_exits = exits,
                                 !.then_dead = BodyDead])
        /\ exits' = <<NodeExit(f.node, f.else_label)>>
        /\ Record([Ev("else", 0) EXCEPT !.node = f.node, !.lbl = f.else_label,
                                         !.def = f.def, !.neg = f.negated])
  /\ UNCHANGED <<nodes, edges, decision_stack, loop_stack, used_nodes, ir_nodes,
                 current_ir_node, ir_node, pc, calls, hist>>

\* Frontiers after a decision that lose the free-fall entry / the then-side.
NoElseExits_dropped(all_exits, n, l) == all_exits
MergeExits_else_only(all_exits, xs) == xs

\* The frontier after a decision (dsl.py 604, 616-622).
NoElseExits(all_exits, n, l) == Append(all_exits, NodeExit(n, l))
MergeExits(all_exits, xs) == all_exits \o xs

IfEnd ==
  /\ pc = "building"
  /\ UNCHANGED <<profile, lib_vars>>
  /\ frames # <<>>
  /\ Top(frames).kind = "if"
  /\ LET f == Top(frames)
     IN \/ /\ f.phase = "then"
           /\ exits' = NoElseExits(exits, f.node, f.else_label)
           /\ Record([Ev("ifEnd", 0) EXCEPT !.node = f.node, !.lbl = f.else_label,
                        !.def = f.def, !.neg = f.negated,
                        !.two = FALSE, !.a = exits,
                        !.dead = BodyDead \ {f.node}])
           /\ hist' = hist
        \/ /\ f.phase = "else"
           /\ exits' = MergeExits(f.all_exits, exits)
           /\ Record([Ev("ifEnd", 0) EXCEPT !.node = f.node, !.lbl = f.else_label,
                        !.def = f.def, !.neg = f.negated,
                        !.two = TRUE, !.a = f.all_exits, !.b = exits,
                        !.dead = (f.then_dead \cup BodyDead) \ {f.node}])
           /\ hist' = [hist EXCEPT !.two_sided = @ \cup {f.node}]
  /\ frames' = Pop(frames)
  /\ UNCHANGED <<nodes, edges, decision_stack, loop_stack, used_nodes, ir_nodes,
                 current_ir_node, ir_node, pc, calls>>

LoopEntry(n) == [node |-> n, break_exits |-> <<>>]

\* _process_while for `while True` up to the start of the body (639-663).
WhileTrueEnter ==
  /\ Building("loop")
  /\ LET n == Len(nodes) + 1
         st == connect_exits_to_target(
                 State(add_node(nodes, IRNode("Process", "(loop)"))), exits, n)
     IN /\ Chart(st)
        /\ Targets(st)
        /\ loop_stack' = Append(loop_stack, LoopEntry(n))
        /\ exits' = <<NodeExit(n, None)>>
        /\ frames' = Append(frames, [Frame("loop", None, n, FALSE)
                                      EXCEPT !.body_label = None, !.else_label = None])
        /\ Record([Ev("loop", n) EXCEPT !.node = n])
  /\ hist' = [hist EXCEPT !.stmts = @ + 1, !.shape = "other"]
  /\ UNCHANGED <<decision_stack, used_nodes, current_ir_node, ir_node, pc>>

\* _process_while for a tested loop up to the start of the body (684-718).
WhileEnter(cond, negated) ==
  /\ Building("while")
  /\ add_decision_node(cond)
  /\ LET n == DecisionTarget(cond)
     IN /\ loop_stack' = Append(loop_stack, LoopEntry(n))
        /\ exits' = <<NodeExit(n, body_label(cond, negated))>>
        /\ frames' = Append(frames, Frame("while", cond, n, negated))
        /\ Record([Ev("while", n) EXCEPT !.node = n, !.def = cond, !.neg = negated])
  /\ hist' = [hist EXCEPT !.stmts = @ + 1, !.shape = "other"]
  /\ UNCHANGED <<decision_stack, current_ir_node, pc>>

\* A frontier after a `while True` loop that lets the anchor fall through.
InfiniteLoopExits_anchor(n, break_exits) == <<NodeExit(n, None)>> \o break_exits

\* A frontier after a tested loop whose exit side lost its label.
LoopExits_unlabelled(n, exit_label, break_exits) == <<NodeExit(n, None)>> \o break_exits

\* The frontier after a loop (dsl.py 681, 737).
InfiniteLoopExits(n, break_exits) == break_exits
LoopExits(n, exit_label, break_exits) == <<NodeExit(n, exit_label)>> \o break_exits

\* _process_while after the body: back-edges, pop, exit frontier (665-682, 720-737).
WhileEnd ==
  /\ pc = "building"
  /\ UNCHANGED <<profile, lib_vars>>
  /\ frames # <<>>
  /\ Top(frames).kind \in {"while", "loop"}
  /\ LET f == Top(frames)
         brk == Top(loop_stack).break_exits
         st == connect_back_edges(State(nodes), exits, f.node)
     IN /\ Chart(st)
        /\ Targets(st)
        /\ \/ /\ f.kind = "loop"
              /\ exits' = InfiniteLoopExits(f.node, brk)
              /\ Record([Ev("loopEnd", f.node) EXCEPT !.node = f.node, !.b = brk])
           \/ /\ f.kind = "while"
              /\ exits' = LoopExits(f.node, f.else_label, brk)
              /\ Record([Ev("whileEnd", f.node) EXCEPT !.node = f.node,
                           !.lbl = f.else_label, !.b = brk,
                           !.def = f.def, !.neg = f.negated])
  /\ loop_stack' = Pop(loop_stack)
  /\ frames' = Pop(frames)
  /\ UNCHANGED <<decision_stack, used_nodes, current_ir_node, ir_node, pc, hist>>

\* A continue that leaves the frontier in place.
ContinueExits_kept(xs) == xs

\* _process_continue (739-759).
ContinueExits(xs) == <<>>

Continue ==
  /\ Building("continue")
  /\ \/ /\ loop_stack = <<>>
        /\ Raise
     \/ /\ loop_stack # <<>>
        /\ LET loop_node == Top(loop_stack).node
               st == connect_exits_to_target(State(nodes), exits, loop_node)
           IN /\ Chart(st)
              /\ Targets(st)
              /\ Record([Ev("continue", loop_node) EXCEPT !.node = loop_node])
        /\ exits' = ContinueExits(exits)
        /\ hist' = [hist EXCEPT !.stmts = @ + 1, !.shape = "other"]
        /\ UNCHANGED <<decision_stack, loop_stack, used_nodes, current_ir_node,
                       ir_node, frames, pc>>

\* _process_break (761-772).
BreakExtend(break_exits, xs) == break_exits \o xs

Break ==
  /\ Building("break")
  /\ \/ /\ loop_stack = <<>>
        /\ Raise
     \/ /\ loop_stack # <<>>
        /\ loop_stack' = [loop_stack EXCEPT ![Len(loop_stack)].break_exits =
                                              BreakExtend(@, exits)]
        /\ exits' = <<>>
        /\ Record([Ev("break", 0) EXCEPT !.node = Top(loop_stack).node,
                                          !.stack = loop_stack])
        /\ hist' = [hist EXCEPT !.stmts = @ + 1, !.shape = "other"]
        /\ UNCHANGED <<nodes, edges, decision_stack, used_nodes, ir_nodes,
                       current_ir_node, ir_node, frames, pc, calls>>

\* The end of _build: the automatic End node, then the finally block (457-468).
Finish ==
  /\ pc = "building"
  /\ UNCHANGED <<profile, lib_vars>>
  /\ frames = <<>>
  /\ LET n == Len(nodes) + 1
         st == IF exits # <<>>
               THEN connect_exits_to_target(
                      State(add_node(nodes, IRNode("End", "End"))), exits, n)
               ELSE State(nodes)
     IN /\ nodes' = st.nodes
        /\ edges' = st.edges
        /\ Targets(st)
        /\ ir_nodes' = reset_nodes(st.ir_nodes, used_nodes)
        /\ Record([Ev("finish", IF exits # <<>> THEN n ELSE 0)
                     EXCEPT !.dead = FrontierNodes(exits)])
  /\ current_ir_node' = reset_current(current_ir_node, used_nodes)
  /\ ir_node' = reset_decisions(ir_node, used_nodes)
  /\ pc' = "done"
  /\ UNCHANGED <<exits, decision_stack, loop_stack, used_nodes, frames, hist>>

Next ==
  \/ Step
  \/ \E def \in NodeDefs : CallNode(def)
  \/ End
  \/ Return
  \/ \E t \in IfTests(profile) : IfEnter(t[1], t[2])
  \/ ElseEnter
  \/ IfEnd
  \/ WhileTrueEnter
  \/ \E t \in LoopTests : WhileEnter(t[1], t[2])
  \/ WhileEnd
  \/ Continue
  \/ Break
  \/ Finish

Spec == Init /\ [][Next]_vars

\* ------------------------------ core/ir.py: FlowChart as its callers use it
\* Callers of the container name the nodes themselves, so here a node carries
\* its id, and nodes and edges carry obj, the identity of the Python object.
NodeIds == {"n1", "n2"}
EdgeLabels == {None, "Yes", "No"}
NodeObj(id, obj) == [id |-> id, obj |-> obj]
EdgeObj(s, t, l, obj) == [source_id |-> s, target_id |-> t, label |-> l, obj |-> obj]

\* `node.id in self.nodes`
HasNode(ns, id) == \E i \in DOMAIN ns : ns[i].id = id

\* An endpoint check that looks at the source only.
Dangling_source_only(ns, e) == ~HasNode(ns, e.source_id)

\* The two endpoint checks of add_edge.
Dangling(ns, e) == ~HasNode(ns, e.source_id) \/ ~HasNode(ns, e.target_id)

\* The existing_edge that add_edge returns for a duplicate: the first match.
StoredEdge(es, e) == es[MinOf({i \in DOMAIN es : DuplicateEdge(<<es[i]>>, e)})]

\* The record of a call: its argument, whether it raised ValueError, the
\* object it returned, and the chart as it was before the call.
Call(op, arg, raised, result) ==
  [op |-> op, arg |-> arg, raised |-> raised, result |-> result,
   nodes |-> nodes, edges |-> edges, calls |-> ret.calls + 1]
NoCallYet ==
  [op |-> "new", arg |-> <<>>, raised |-> FALSE, result |-> 0,
   nodes |-> <<>>, edges |-> <<>>, calls |-> 0]

\* The assembler is not running.
CtxIdle ==
  /\ exits = <<>>
  /\ decision_stack = <<>>
  /\ loop_stack = <<>>
  /\ used_nodes = {}
  /\ ir_nodes = [x \in NodeDefs |-> <<>>]
  /\ current_ir_node = [x \in NodeDefs |-> 0]
  /\ ir_node = [x \in DecisionDefs |-> 0]
  /\ frames = <<>>
  /\ pc = "idle"
  /\ last = NoEv
  /\ prev = NoEv
  /\ calls = [n |-> [x \in NodeDefs |-> 0],
              targets |-> [x \in NodeDefs |-> <<>>],
              preds |-> [x \in NodeDefs |-> {}],
              unreached |-> [x \in NodeDefs |-> 0]]
  /\ hist = [shape |-> "straight", stmts |-> 0, nsteps |-> 0, two_sided |-> {}]
  /\ profile = "none"

\* FlowChart() : an empty chart.
InitIR ==
  /\ nodes = <<>>
  /\ edges = <<>>
  /\ ret = NoCallYet
  /\ CtxIdle
  /\ SubIdle
  /\ ExtIdle

\* chart.add_node(Node(node_id = id)).
FlowChart_add_node(id) ==
  /\ ret.calls < MaxCalls
  /\ LET node == NodeObj(id, ret.calls + 1)
     IN IF HasNode(nodes, id)
        THEN /\ nodes' = nodes
             /\ ret' = Call("add_node", node, TRUE, 0)
        ELSE /\ nodes' = add_node(nodes, node)
             /\ ret' = Call("add_node", node, FALSE, node.obj)
  /\ UNCHANGED <<edges, ctx_vars, sub_vars, ext_vars>>

\* chart.add_edge(Edge(s, t, label = l)).
FlowChart_add_edge(s, t, l) ==
  /\ ret.calls < MaxCalls
  /\ LET e == EdgeObj(s, t, l, ret.calls + 1)
     IN IF Dangling(nodes, e)
        THEN /\ edges' = edges
             /\ ret' = Call("add_edge", e, TRUE, 0)
        ELSE /\ edges' = add_edge(edges, e)
             /\ ret' = Call("add_edge", e, FALSE,
                            IF DuplicateEdge(edges, e) THEN StoredEdge(edges, e).obj
                            ELSE e.obj)
  /\ UNCHANGED <<nodes, ctx_vars, sub_vars, ext_vars>>

NextIR ==
  \/ \E id \in NodeIds : FlowChart_add_node(id)
  \/ \E s \in NodeIds, t \in NodeIds, l \in EdgeLabels : FlowChart_add_edge(s, t, l)

SpecIR == InitIR /\ [][NextIR]_vars

\* ------------------------------------- frontend/dsl.py: subflows, multi_chart
\* Two @Subflow functions and one @Flow root that call one another through
\* module globals; the bodies are streams of subflow calls.  A FlowBuilder and
\* its chart are named after the function they were built from.
Subflows == {"flow_a", "flow_b"}
Root == "main"
SubflowNames == {"X", "Y"}

MaxOf(S) == CHOOSE i \in S : \A j \in S : j <= i
Put(f, k, v) == [x \in DOMAIN f \cup {k} |-> IF x = k THEN v ELSE f[x]]

\* SubflowBuilder.__init__ ; builds counts the runs of the decorated function.
SubflowBuilder(name) ==
  [name |-> name, chart |-> None, flow_builder |-> None, building |-> FALSE,
   builds |-> 0]

\* FlowBuilder.__init__ and the head of _build: the chart exists from here on.
\* links are the SubFlowNodes of the chart, in the order they were added.
FlowBuilder(name) == [name |-> name, links |-> <<>>, referenced_subflows |-> <<>>]

\* One activation of FlowBuilder._build: the builder, the number of call
\* statements of its body processed so far, and the subflow whose lazy build
\* the current call statement is waiting for.
Activation(b) == [builder |-> b, n |-> 0, pending |-> None]

\* The globals _building_flow_builder / _current_flow: _build sets them to
\* itself and restores the saved previous values when it leaves.
building_flow_builder ==
  IF build_stack = <<>> THEN None ELSE Top(build_stack).builder

\* @Flow(Root) starts to build; the subflows are decorated and not yet built.
InitSub ==
  /\ nodes = <<>>
  /\ edges = <<>>
  /\ ret = NoCall
  /\ CtxIdle
  /\ ExtIdle
  /\ \E nm \in [Subflows -> SubflowNames] :
       registry = [s \in Subflows |-> SubflowBuilder(nm[s])]
  /\ builders = Put(<<>>, Root, FlowBuilder(Root))
  /\ build_stack = <<Activation(Root)>>
  /\ multi = NoMulti

\* The guards of _ensure_built: built already, or being built further down.
ensure_built_always(reg, s) == TRUE
ensure_built(reg, s) == reg[s].chart = None /\ ~reg[s].building

\* _SubFlowDef._get_target_chart_id for the definition _invoke creates.
get_target_chart_id(reg, s) ==
  IF reg[s].chart # None THEN reg[s].chart
  ELSE IF reg[s].flow_builder # None THEN reg[s].flow_builder
  ELSE None

\* _SubFlowDef._get_or_create_node: the SubFlowNode; callee records the
\* subflow that was invoked at the call site.
SubFlowNode(reg, s) ==
  [label |-> reg[s].name, target_chart_id |-> get_target_chart_id(reg, s),
   callee |-> s]

\* _register_subflow_reference
register_subflow_reference(refs, s) ==
  IF s \in Range(refs) THEN refs ELSE Append(refs, s)

\* The tail of _invoke: _add_subflow_node and _register_subflow_reference on
\* the flow that is being built.
invoke(bs, reg, b, s) ==
  [bs EXCEPT ![b].links = Append(@, SubFlowNode(reg, s)),
             ![b].referenced_subflows = register_subflow_reference(@, s)]

\* A call statement `s()` in the body being built: SubflowBuilder._invoke.
\* When the subflow has to be built first, its FlowBuilder starts (_building
\* set, globals saved) and the statement waits for that build to return.
SubflowCall(s) ==
  /\ build_stack # <<>>
  /\ Top(build_stack).pending = None
  /\ Top(build_stack).n < MaxInvokes
  /\ multi = NoMulti
  /\ LET top == Top(build_stack)
         n == Len(build_stack)
     IN IF ensure_built(registry, s)
        THEN /\ Len(build_stack) < MaxDepth
             /\ registry' = [registry EXCEPT ![s].building = TRUE,
                                             ![s].builds = @ + 1]
             /\ builders' = Put(builders, s, FlowBuilder(registry[s].name))
             /\ build_stack' =
                  Append([build_stack EXCEPT ![n].pending = s], Activation(s))
        ELSE /\ builders' = invoke(builders, registry, top.builder, s)
             /\ build_stack' = [build_stack EXCEPT ![n].n = @ + 1]
             /\ registry' = registry
  /\ UNCHANGED <<nodes, edges, ctx_vars, ret, multi, ext_vars>>

\* The body of the flow being built has no more statements: _build restores
\* the globals and returns.  For a subflow, _ensure_built then stores the
\* FlowBuilder and its chart and clears _building, and the _invoke that
\* started the build adds its SubFlowNode to the calling flow.
BuildReturn ==
  /\ build_stack # <<>>
  /\ Top(build_stack).pending = None
  /\ multi = NoMulti
  /\ LET s == Top(build_stack).builder
         rest == Pop(build_stack)
         n == Len(rest)
     IN IF rest = <<>>
        THEN /\ build_stack' = rest
             /\ UNCHANGED <<registry, builders>>
        ELSE LET reg == [registry EXCEPT ![s].flow_builder = s,
                                         ![s].chart = s,
                                         ![s].building = FALSE]
             IN /\ registry' = reg
                /\ builders' = invoke(builders, reg, rest[n].builder, s)
                /\ build_stack' = [rest EXCEPT ![n].pending = None,
                                               ![n].n = @ + 1]
  /\ UNCHANGED <<nodes, edges, ctx_vars, ret, multi, ext_vars>>

\* MultiFlowChart(self.name)
MultiFlowChart == [charts |-> <<>>, main_chart_id |-> None, raised |-> FALSE]

\* MultiFlowChart.add_chart, the variant in which only the first chart is main.
add_chart_first_is_main(m, chart, is_main) ==
  IF chart \in Range(m.charts) THEN [m EXCEPT !.raised = TRUE]
  ELSE [m EXCEPT !.charts = Append(@, chart),
                 !.main_chart_id = IF @ = None THEN chart ELSE @]

\* MultiFlowChart.add_chart ; raised: ValueError, the chart id is there already.
add_chart(m, chart, is_main) ==
  IF chart \in Range(m.charts) THEN [m EXCEPT !.raised = TRUE]
  ELSE [m EXCEPT !.charts = Append(@, chart),
                 !.main_chart_id = IF is_main \/ @ = None THEN chart ELSE @]

\* collect_subflows(flow_builder), from the i-th referenced subflow on; st is
\* the multi chart so far together with the collected set.
RECURSIVE collect_subflows(_, _, _)
collect_subflows(fb, i, st) ==
  IF st.multi.raised \/ i > Len(builders[fb].referenced_subflows) THEN st
  ELSE LET subflow == builders[fb].referenced_subflows[i]
           st1 == [st EXCEPT !.collected = @ \cup {subflow}]
           st2 == [st1 EXCEPT
                     !.multi = add_chart(@, registry[subflow].chart, FALSE)]
       IN IF subflow \in st.collected THEN collect_subflows(fb, i + 1, st)
          ELSE IF registry[subflow].chart = None
          THEN collect_subflows(fb, i + 1, st1)
          ELSE IF st2.multi.raised THEN st2
          ELSE IF registry[subflow].flow_builder # None
          THEN collect_subflows(fb, i + 1,
                 collect_subflows(registry[subflow].flow_builder, 1, st2))
          ELSE collect_subflows(fb, i + 1, st2)

\* name_to_chart_id : a later chart of the same name replaces an earlier one.
NamedCharts(charts, name) == {i \in DOMAIN charts : builders[charts[i]].name = name}
name_to_chart_id(charts, name) == charts[MaxOf(NamedCharts(charts, name))]

\* The final pass over the SubFlowNodes of one chart of the multi chart.
FixLinks(charts, links) ==
  [i \in DOMAIN links |->
     IF links[i].target_chart_id = None /\ NamedCharts(charts, links[i].label) # {}
     THEN [links[i] EXCEPT !.target_chart_id = name_to_chart_id(charts, links[i].label)]
     ELSE links[i]]

\* FlowBuilder.multi_chart of a built flow.  before keeps the flows as they
\* were when the property was read.
MultiChart(root) ==
  /\ build_stack = <<>>
  /\ multi = NoMulti
  /\ root \in DOMAIN builders
  /\ LET st == collect_subflows(root, 1,
                 [multi |-> add_chart(MultiFlowChart, root, TRUE), collected |-> {}])
         m == st.multi
     IN /\ multi' = [root |-> root, raised |-> m.raised, charts |-> m.charts,
                     main_chart_id |-> m.main_chart_id, before |-> builders]
        /\ builders' =
             IF m.raised THEN builders
             ELSE [b \in DOMAIN builders |->
                     IF b \in Range(m.charts)
                     THEN [builders[b] EXCEPT !.links = FixLinks(m.charts, @)]
                     ELSE builders[b]]
  /\ UNCHANGED <<nodes, edges, ctx_vars, ret, registry, build_stack, ext_vars>>

NextSub ==
  \/ \E s \in Subflows : SubflowCall(s)
  \/ BuildReturn
  \/ \E root \in {Root} \cup Subflows : MultiChart(root)

SpecSub == InitSub /\ [][NextSub]_vars

\* ------------------------------------------------- a @Flow decoration, any body
\* A @Flow decoration runs either a body of control-flow statements or a body
\* of subflow calls.
InitAll == Init \/ InitSub
NextAll == Next \/ NextSub
SpecAll == InitAll /\ [][NextAll]_vars

\* ------------------------------------------- one @Flow decoration after another
\* The next @Flow decoration starts when the one before has returned or
\* raised: _build makes a new chart and a new context; the module-level
\* definitions, with whatever state they hold, are the same objects.
NewRun ==
  /\ pc \in {"done", "error"}
  /\ run < MaxRuns
  /\ run' = run + 1
  /\ nodes' = <<IRNode("Start", "F")>>
  /\ edges' = <<>>
  /\ exits' = <<NodeExit(1, None)>>
  /\ decision_stack' = <<>>
  /\ loop_stack' = <<>>
  /\ used_nodes' = {}
  /\ frames' = <<>>
  /\ pc' = "building"
  /\ last' = NoEv
  /\ prev' = NoEv
  /\ calls' = [n |-> [x \in NodeDefs |-> 0],
               targets |-> [x \in NodeDefs |-> <<>>],
               preds |-> [x \in NodeDefs |-> {}],
               unreached |-> [x \in NodeDefs |-> 0]]
  /\ hist' = [shape |-> "straight", stmts |-> 0, nsteps |-> 0, two_sided |-> {}]
  /\ profile' \in Profiles
  /\ UNCHANGED <<ir_nodes, current_ir_node, ir_node, ret, sub_vars,
                 threads, mfc, ast_builder, runner, static_builder, tracer>>

NextRuns == Next \/ NewRun
SpecRuns == Init /\ [][NextRuns]_vars

\* ------------------------------- frontend/dsl.py: two decorations, two threads
\* Thread p assembles a procedure over its own reusable step a, thread q one
\* over its own reusable step b; the procedures are straight lines of calls
\* of the step and of flow.step.  Nodes are objects: a node has an id of its
\* own, whichever chart it is added to.  The module global _current_flow is
\* shared by the threads; a statement is processed without interruption.
Threads == {"p", "q"}
OwnDef(t) == IF t = "p" THEN "a" ELSE "b"
ThreadDefs == {OwnDef(t) : t \in Threads}

\* FlowBuilder before __call__, and a NodeDef.
NewFlow ==
  [pc |-> "new", prev |-> None, nodes |-> <<>>, edges |-> <<>>, exits |-> <<>>,
   used |-> {}, prog |-> <<>>]
NewDef == [ir_nodes |-> <<>>, current |-> 0]
World0 ==
  [current_flow |-> None, next_id |-> 1,
   defs |-> [d \in ThreadDefs |-> NewDef],
   flows |-> [t \in Threads |-> NewFlow],
   node |-> 0, raised |-> FALSE]

ChartIds(f) == {f.nodes[i].id : i \in DOMAIN f.nodes}
ChartOut(f, id) == {i \in DOMAIN f.edges : f.edges[i].source_id = id}

\* FlowChart.add_node of a new node object; w.node is the node.
W_add_node(w, c, label) ==
  [w EXCEPT !.flows[c].nodes = Append(@, [id |-> w.next_id, label |-> label]),
            !.next_id = @ + 1, !.node = w.next_id]

\* FlowChart.add_edge on the chart of context c; raised: ValueError.
W_add_edge(w, c, s, t) ==
  LET f == w.flows[c]
      e == [source_id |-> s, target_id |-> t]
  IN IF s \notin ChartIds(f) \/ t \notin ChartIds(f) THEN [w EXCEPT !.raised = TRUE]
     ELSE IF e \in Range(f.edges) THEN w
     ELSE [w EXCEPT !.flows[c].edges = Append(@, e)]

\* NodeDef._create_new_node(flowchart)
W_create_new_node(w, d, c) ==
  LET a == W_add_node(w, c, d)
  IN [a EXCEPT !.defs[d].ir_nodes = Append(@, a.node)]

\* NodeDef._get_node_for_target(flowchart, target_id)
W_get_node_for_target(w, d, c, target) ==
  LET irs == w.defs[d].ir_nodes
      fits == {i \in DOMAIN irs :
                 \/ ChartOut(w.flows[c], irs[i]) = {}
                 \/ \E j \in ChartOut(w.flows[c], irs[i]) :
                      w.flows[c].edges[j].target_id = target}
  IN IF fits # {} THEN [w EXCEPT !.node = irs[MinOf(fits)]]
     ELSE W_create_new_node(w, d, c)

\* NodeDef._get_or_create_node(flowchart)
W_get_or_create_node(w, d, c) ==
  IF w.defs[d].ir_nodes = <<>> THEN W_create_new_node(w, d, c)
  ELSE [w EXCEPT !.node = Top(w.defs[d].ir_nodes)]

\* FlowContext._connect_exits_to_target of context c, from the i-th exit on.
RECURSIVE W_connect_exits(_, _, _, _)
W_connect_exits(w, c, i, target) ==
  IF w.raised THEN w
  ELSE IF i > Len(w.flows[c].exits) THEN [w EXCEPT !.flows[c].exits = <<>>]
  ELSE LET x == w.flows[c].exits[i]
           r == IF x.is_def THEN W_get_node_for_target(w, x.ref, c, target)
                ELSE [w EXCEPT !.node = x.ref]
       IN W_connect_exits(W_add_edge(r, c, r.node, target), c, i + 1, target)

\* The finally block of thread t's _build, and the outcome of the build.
W_finally(w, t) ==
  [w EXCEPT !.current_flow = w.flows[t].prev,
            !.defs = [d \in ThreadDefs |->
                        IF d \in w.flows[t].used THEN NewDef ELSE w.defs[d]],
            !.flows[t].pc = IF w.raised THEN "error" ELSE "done",
            !.node = 0, !.raised = FALSE]

\* Thread t has processed a statement: on an error its _build is left.
W_after(w, t) == IF w.raised THEN W_finally(w, t) ELSE [w EXCEPT !.node = 0]

\* _build up to the try block: chart, context, Start node, the globals.
W_begin(w, t) ==
  LET a == W_add_node(w, t, "Start")
  IN [a EXCEPT !.flows[t].pc = "building",
               !.flows[t].exits = <<[is_def |-> FALSE, ref |-> a.node]>>,
               !.flows[t].prev = w.current_flow,
               !.current_flow = t,
               !.node = 0]

\* The statement `d()` of thread t: NodeDef.__call__ adds the step to the
\* context that _current_flow names.
W_call(w, t, d) ==
  IF w.current_flow = None THEN [w EXCEPT !.raised = TRUE]
  ELSE LET c == w.current_flow
           g == W_get_or_create_node(w, d, c)
           u == [g EXCEPT !.defs[d].current = g.node, !.flows[c].used = @ \cup {d}]
           k == W_connect_exits(u, c, 1, g.node)
       IN IF k.raised THEN k
          ELSE [k EXCEPT !.flows[c].exits = <<[is_def |-> TRUE, ref |-> d]>>]

\* The statement `flow.step(...)` of thread t: a method of t's own context.
W_step(w, t) ==
  LET a == W_add_node(w, t, "S")
      k == W_connect_exits(a, t, 1, a.node)
  IN IF k.raised THEN k
     ELSE [k EXCEPT !.flows[t].exits = <<[is_def |-> FALSE, ref |-> a.node]>>]

W_statement(w, t, kind) ==
  LET v == [w EXCEPT !.flows[t].prog = Append(@, kind)]
  IN W_after(IF kind = "call" THEN W_call(v, t, OwnDef(t)) ELSE W_step(v, t), t)

\* The end of the body: the automatic End node and the finally block.
W_finish(w, t) ==
  LET a == W_add_node(w, t, "End")
  IN W_finally(IF w.flows[t].exits = <<>> THEN w
               ELSE W_connect_exits(a, t, 1, a.node), t)

InitThreads ==
  /\ nodes = <<>>
  /\ edges = <<>>
  /\ ret = NoCall
  /\ CtxIdle
  /\ SubIdle
  /\ run = 1
  /\ threads = World0
  /\ mfc = NoCall
  /\ ast_builder = NoCall
  /\ runner = NoCall
  /\ static_builder = NoCall
  /\ tracer = NoCall

ThreadFrame ==
  UNCHANGED <<nodes, edges, ctx_vars, ret, sub_vars, run, mfc, ast_builder,
              runner, static_builder, tracer>>

\* Thread t enters FlowBuilder.__call__.
Begin(t) ==
  /\ threads.flows[t].pc = "new"
  /\ threads' = W_begin(threads, t)
  /\ ThreadFrame

\* Thread t processes the next statement of its procedure.
Statement_t(t, kind) ==
  /\ threads.flows[t].pc = "building"
  /\ Len(threads.flows[t].prog) < MaxThreadStmts
  /\ threads' = W_statement(threads, t, kind)
  /\ ThreadFrame

\* Thread t reaches the end of its procedure.
Finish_t(t) ==
  /\ threads.flows[t].pc = "building"
  /\ threads' = W_finish(threads, t)
  /\ ThreadFrame

NextThreads ==
  \/ \E t \in Threads : Begin(t)
  \/ \E t \in Threads, kind \in {"call", "step"} : Statement_t(t, kind)
  \/ \E t \in Threads : Finish_t(t)

SpecThreads == InitThreads /\ [][NextThreads]_vars

\* ============================================ core/ir.py: MultiFlowChart
\* The rest of the library is not in use while the container is exercised.
LibIdle ==
  /\ nodes = <<>>
  /\ edges = <<>>
  /\ ret = NoCall
  /\ CtxIdle
  /\ SubIdle
  /\ run = 1
  /\ threads = NoCall

\* The chart ids, node ids and labels the callers pass. "nx" is in no chart.
\* The calls made on one container.
MaxMultiCalls == 4
MultiChartIds == {"c1", "c2"}
MultiNodeIds == {"n1", "n2", "nx"}
LinkLabels == {None, "", "L"}

\* Node.__init__ / SubFlowNode.__init__ ; only a SubFlowNode has the attribute
\* target_chart_id, the field is None for the other classes.
IRNodeOf(kind, id, label, target, metadata) ==
  [kind |-> kind, id |-> id, label |-> label, target_chart_id |-> target,
   metadata |-> metadata]

\* FlowChart(chart_id = c) as its caller filled it: a ProcessNode, a
\* SubFlowNode without a target yet, and one edge between them.
ChartOf(c) ==
  [nodes |-> [n \in {"n1", "n2"} |->
                IF n = "n1"
                THEN IRNodeOf("ProcessNode", "n1", "work", None, "meta-1")
                ELSE IRNodeOf("SubFlowNode", "n2", "go", None, "meta-2")],
   edges |-> <<[source_id |-> "n1", target_id |-> "n2", label |-> None]>>]

\* What a call can change: the chart map (keys in insertion order and the
\* charts they name) and the main designation.
Contents(m) ==
  [charts |-> m.charts, main_chart_id |-> m.main_chart_id, body |-> m.body]

\* MultiFlowChart(): charts is the key order of self.charts, body its values.
\* op, args, before and added record the last call, the container before it
\* and the <<id, is_main>> of every chart that was not there when it was added;
\* calls counts the calls.
NewMultiFlowChart ==
  [charts |-> <<>>, main_chart_id |-> None, raised |-> FALSE, body |-> <<>>,
   op |-> "new", args |-> <<>>,
   before |-> [charts |-> <<>>, main_chart_id |-> None, body |-> <<>>],
   added |-> <<>>, calls |-> 0]

\* MultiFlowChart.link_charts, the variant that does not look for the target.
link_charts_unchecked_target(m, source_chart_id, source_node_id, target_chart_id, label) ==
  IF source_chart_id \notin Range(m.charts) THEN [m EXCEPT !.raised = TRUE]
  ELSE IF source_node_id \notin DOMAIN m.body[source_chart_id].nodes
  THEN [m EXCEPT !.raised = TRUE]
  ELSE LET source_node == m.body[source_chart_id].nodes[source_node_id]
           given == label \notin {None, ""}
       IN [m EXCEPT !.body[source_chart_id].nodes[source_node_id] =
             IF source_node.kind = "SubFlowNode"
             THEN [source_node EXCEPT
                     !.target_chart_id = target_chart_id,
                     !.label = IF given THEN label ELSE @]
             ELSE IRNodeOf("SubFlowNode", source_node.id,
                           IF given THEN label ELSE source_node.label,
                           target_chart_id, source_node.metadata)]

\* MultiFlowChart.link_charts ; raised: ValueError. `if label:` and
\* `label or source_node.label` take None and "" alike as no label.
link_charts(m, source_chart_id, source_node_id, target_chart_id, label) ==
  IF source_chart_id \notin Range(m.charts) THEN [m EXCEPT !.raised = TRUE]
  ELSE IF target_chart_id \notin Range(m.charts) THEN [m EXCEPT !.raised = TRUE]
  ELSE IF source_node_id \notin DOMAIN m.body[source_chart_id].nodes
  THEN [m EXCEPT !.raised = TRUE]
  ELSE LET source_node == m.body[source_chart_id].nodes[source_node_id]
           given == label \notin {None, ""}
       IN [m EXCEPT !.body[source_chart_id].nodes[source_node_id] =
             IF source_node.kind = "SubFlowNode"
             THEN [source_node EXCEPT
                     !.target_chart_id = target_chart_id,
                     !.label = IF given THEN label ELSE @]
             ELSE IRNodeOf("SubFlowNode", source_node.id,
                           IF given THEN label ELSE source_node.label,
                           target_chart_id, source_node.metadata)]

InitMulti ==
  /\ LibIdle
  /\ mfc = NewMultiFlowChart
  /\ ast_builder = NoCall
  /\ runner = NoCall
  /\ static_builder = NoCall
  /\ tracer = NoCall

MultiFrame ==
  UNCHANGED <<nodes, edges, ctx_vars, ret, sub_vars, run, threads, ast_builder,
              runner, static_builder, tracer>>

\* multi.add_chart(chart, is_main) with chart.id = c.
AddChart(c, is_main) ==
  /\ mfc.op # "none"
  /\ mfc.calls < MaxMultiCalls
  /\ LET m == add_chart([mfc EXCEPT !.raised = FALSE], c, is_main)
     IN mfc' = [m EXCEPT
                  !.body = IF m.raised THEN @ ELSE Put(@, c, ChartOf(c)),
                  !.op = "add_chart",
                  !.args = <<c, is_main>>,
                  !.before = Contents(mfc),
                  !.calls = @ + 1,
                  !.added = IF c \in Range(mfc.charts) THEN @
                            ELSE Append(@, <<c, is_main>>)]
  /\ MultiFrame

\* multi.link_charts(s, n, t, label)
LinkCharts(s, n, t, label) ==
  /\ mfc.op # "none"
  /\ mfc.calls < MaxMultiCalls
  /\ LET m == link_charts([mfc EXCEPT !.raised = FALSE], s, n, t, label)
     IN mfc' = [m EXCEPT !.op = "link_charts",
                         !.args = <<s, n, t, label>>,
                         !.before = Contents(mfc),
                         !.calls = @ + 1]
  /\ MultiFrame

NextMulti ==
  \/ \E c \in MultiChartIds, is_main \in BOOLEAN : AddChart(c, is_main)
  \/ \E s \in MultiChartIds, n \in MultiNodeIds, t \in MultiChartIds,
        label \in LinkLabels : LinkCharts(s, n, t, label)

SpecMulti == InitMulti /\ [][NextMulti]_vars

\* ============================================ engine/runner.py: FlowRunner
\* The visits one runner records.
MaxHistory == 4

\* The charts that are run: four nodes in insertion order; the first is a
\* StartNode or not, the last an EndNode; any of the candidate edges, in this
\* order.
RunnerNodeIds == <<"s", "p", "q", "e">>
RunnerEdges ==
  <<<<"s", "p">>, <<"p", "q">>, <<"q", "p">>, <<"q", "e">>, <<"p", "e">>,
    <<"e", "s">>>>
RunnerKinds(first) ==
  [n \in Range(RunnerNodeIds) |->
     CASE n = "s" -> first
       [] n = "p" -> "ProcessNode"
       [] n = "q" -> "DecisionNode"
       [] n = "e" -> "EndNode"]
RunnerChart(first, chosen) ==
  [kind |-> RunnerKinds(first),
   edges |-> SelectSeq(RunnerEdges, LAMBDA e : e \in chosen)]
RunnerCharts ==
  {RunnerChart(first, chosen) :
     first \in {"StartNode", "ProcessNode"}, chosen \in SUBSET Range(RunnerEdges)}

\* FlowRunner.__init__ ; op, raised and before record the last call and the
\* position and history before it.
FlowRunner(flowchart) ==
  [flowchart |-> flowchart, current_node |-> None, history |-> <<>>,
   op |-> "new", arg |-> None, raised |-> None,
   before |-> [current_node |-> None, history |-> <<>>]]

\* [e for e in self.flowchart.edges if e.source_id == self.current_node.id]
get_options(r) ==
  IF r.current_node = None THEN <<>>
  ELSE SelectSeq(r.flowchart.edges, LAMBDA e : e[1] = r.current_node)

\* FlowChart.get_node
get_node(chart, id) == IF id \in DOMAIN chart.kind THEN id ELSE None

\* FlowRunner._record_visit
record_visit(r) ==
  IF r.current_node # None
  THEN [r EXCEPT !.history = Append(@, r.current_node)]
  ELSE r

\* FlowRunner.start
start(r, start_node_id) ==
  LET starts == {i \in DOMAIN RunnerNodeIds :
                   r.flowchart.kind[RunnerNodeIds[i]] = "StartNode"}
      r1 == IF start_node_id # None
            THEN [r EXCEPT !.current_node = get_node(r.flowchart, start_node_id)]
            ELSE IF starts # {}
            THEN [r EXCEPT !.current_node =
                    RunnerNodeIds[CHOOSE i \in starts : \A j \in starts : i <= j]]
            ELSE r
  IN IF r1.current_node = None THEN [r1 EXCEPT !.raised = "ValueError"]
     ELSE record_visit(r1)

\* FlowRunner.step, the variant that does not stop at an EndNode.
step_through_end(r) ==
  LET outgoing == get_options(r)
  IN IF r.current_node = None THEN [r EXCEPT !.raised = "RuntimeError"]
     ELSE IF outgoing = <<>> THEN r
     ELSE IF Len(outgoing) = 1
     THEN record_visit(
            [r EXCEPT !.current_node = get_node(r.flowchart, outgoing[1][2])])
     ELSE [r EXCEPT !.raised = "ValueError"]

\* FlowRunner.step
step(r) ==
  LET outgoing == get_options(r)
  IN IF r.current_node = None THEN [r EXCEPT !.raised = "RuntimeError"]
     ELSE IF r.flowchart.kind[r.current_node] = "EndNode" THEN r
     ELSE IF outgoing = <<>> THEN r
     ELSE IF Len(outgoing) = 1
     THEN record_visit(
            [r EXCEPT !.current_node = get_node(r.flowchart, outgoing[1][2])])
     ELSE [r EXCEPT !.raised = "ValueError"]

\* FlowRunner.choose_path
choose_path(r, edge_index) ==
  LET options == get_options(r)
  IN IF edge_index < 0 \/ edge_index >= Len(options)
     THEN [r EXCEPT !.raised = "IndexError"]
     ELSE record_visit(
            [r EXCEPT !.current_node =
               get_node(r.flowchart, options[edge_index + 1][2])])

InitRunner ==
  /\ LibIdle
  /\ mfc = NoCall
  /\ ast_builder = NoCall
  /\ runner \in {FlowRunner(c) : c \in RunnerCharts}
  /\ static_builder = NoCall
  /\ tracer = NoCall

RunnerFrame ==
  UNCHANGED <<nodes, edges, ctx_vars, ret, sub_vars, run, threads, mfc,
              ast_builder, static_builder, tracer>>

\* One call on the runner: the call, its argument, and the state before it.
RunnerCall(op, arg, r) ==
  [r EXCEPT !.op = op, !.arg = arg,
            !.before = [current_node |-> runner.current_node,
                        history |-> runner.history]]

\* runner.start(start_node_id)
RunnerStart(start_node_id) ==
  /\ runner.op # "none"
  /\ Len(runner.history) < MaxHistory
  /\ runner' = RunnerCall("start", start_node_id,
                          start([runner EXCEPT !.raised = None], start_node_id))
  /\ RunnerFrame

\* runner.step()
RunnerStep ==
  /\ runner.op # "none"
  /\ Len(runner.history) < MaxHistory
  /\ runner' = RunnerCall("step", None, step([runner EXCEPT !.raised = None]))
  /\ RunnerFrame

\* runner.choose_path(edge_index)
RunnerChoosePath(edge_index) ==
  /\ runner.op # "none"
  /\ Len(runner.history) < MaxHistory
  /\ runner' = RunnerCall("choose_path", edge_index,
                          choose_path([runner EXCEPT !.raised = None], edge_index))
  /\ RunnerFrame

NextRunner ==
  \/ \E id \in {None, "p", "zz"} : RunnerStart(id)
  \/ RunnerStep
  \/ \E i \in 0 .. 2 : RunnerChoosePath(i)

SpecRunner == InitRunner /\ [][NextRunner]_vars

\* ============================================ frontend/ast_builder.py
\* The statements of the decorated function that produce nodes.
MaxAstStmts == 4

\* The call statements: <<function, arguments>>.  _get_call_key of a plain
\* name is the function, _call_to_label is made of both.
AstCalls == {<<"f", "">>, <<"f", "1">>, <<"g", "">>}
get_call_key(call) == call[1]
call_to_label(call) == call

\* ASTFlowBuilder(name, shared_nodes) and the head of build_from_function:
\* the Start node is the frontier.  stack holds the if / while statements
\* being processed, pc is "done" when build_from_function has returned.
\* sites records each call statement processed: its key, the frontier it was
\* reached from, the number of nodes before it, the node it ended on and
\* whether it created a node.
ASTFlowBuilder(shared_nodes) ==
  [shared_nodes |-> shared_nodes,
   nodes |-> <<IRNode("StartNode", "Start")>>, edges |-> <<>>,
   current_exits |-> <<<<1, None>>>>, named_nodes |-> <<>>,
   stack |-> <<>>, pc |-> "body", stmts |-> 0, op |-> "new", sites |-> <<>>]

\* for exit_node, label in self._current_exits: add_edge(Edge(exit, node, label))
RECURSIVE ast_connect(_, _, _)
ast_connect(es, xs, target) ==
  IF xs = <<>> THEN es
  ELSE ast_connect(add_edge(es, Edge(Head(xs)[1], target, Head(xs)[2])),
                   Tail(xs), target)

\* ASTFlowBuilder._add_node
ast_add_node(b, node) ==
  LET n == Len(b.nodes) + 1
  IN [b EXCEPT !.nodes = add_node(@, node),
               !.edges = ast_connect(@, b.current_exits, n),
               !.current_exits = <<<<n, None>>>>]

\* ASTFlowBuilder._add_decision
ast_add_decision(b, node) ==
  LET n == Len(b.nodes) + 1
  IN [b EXCEPT !.nodes = add_node(@, node),
               !.edges = ast_connect(@, b.current_exits, n),
               !.current_exits = <<>>]

\* ASTFlowBuilder._process_call, the variant that registers no node.
process_call_unregistered(b, call) ==
  LET key == get_call_key(call)
  IN IF b.shared_nodes /\ key \in DOMAIN b.named_nodes
     THEN [b EXCEPT
             !.edges = ast_connect(@, b.current_exits, b.named_nodes[key]),
             !.current_exits = <<<<b.named_nodes[key], None>>>>]
     ELSE ast_add_node(b, IRNode("ProcessNode", call_to_label(call)))

\* ASTFlowBuilder._process_call
process_call(b, call) ==
  LET key == get_call_key(call)
  IN IF b.shared_nodes /\ key \in DOMAIN b.named_nodes
     THEN [b EXCEPT
             !.edges = ast_connect(@, b.current_exits, b.named_nodes[key]),
             !.current_exits = <<<<b.named_nodes[key], None>>>>]
     ELSE LET a == ast_add_node(b, IRNode("ProcessNode", call_to_label(call)))
          IN IF b.shared_nodes
             THEN [a EXCEPT !.named_nodes = Put(@, key, Len(a.nodes))]
             ELSE a

\* The head of _process_if / _process_while: the decision, and the Yes
\* branch as the frontier.
ast_enter(b, kind) ==
  LET a == ast_add_decision(b, IRNode("DecisionNode", "cond"))
      decision == Len(a.nodes)
  IN [a EXCEPT !.current_exits = <<<<decision, "Yes">>>>,
               !.stack = Append(@, [kind |-> kind, decision |-> decision,
                                    all_exits |-> <<>>])]

\* _process_if from the end of the if-body to the else-body.
ast_else(b) ==
  LET f == Top(b.stack)
  IN [b EXCEPT !.stack = Append(Pop(@), [f EXCEPT !.kind = "else",
                                  !.all_exits = @ \o b.current_exits]),
               !.current_exits = <<<<f.decision, "No">>>>]

\* The tail of _process_if, after the if-body or after the else-body.
ast_end_if(b) ==
  LET f == Top(b.stack)
      all_exits == f.all_exits \o b.current_exits \o
                   (IF f.kind = "if" THEN <<<<f.decision, "No">>>> ELSE <<>>)
  IN [b EXCEPT !.stack = Pop(@), !.current_exits = all_exits]

\* The back-edges of _process_while: Edge(exit_node.id, decision.id)
RECURSIVE ast_back_edges(_, _, _)
ast_back_edges(es, xs, decision) ==
  IF xs = <<>> THEN es
  ELSE ast_back_edges(add_edge(es, Edge(Head(xs)[1], decision, None)),
                      Tail(xs), decision)

\* The tail of _process_while.
ast_end_while(b) ==
  LET f == Top(b.stack)
  IN [b EXCEPT !.edges = ast_back_edges(@, b.current_exits, f.decision),
               !.stack = Pop(@),
               !.current_exits = <<<<f.decision, "No">>>>]

\* ASTFlowBuilder._process_return
process_return(b) ==
  [ast_add_node(b, IRNode("EndNode", "Return")) EXCEPT !.current_exits = <<>>]

\* ASTFlowBuilder._process_statement for `break` and `continue`: the chain of
\* isinstance tests has no branch for ast.Break or ast.Continue, the
\* statement changes nothing.
process_jump(b, kind) == b

\* The tail of build_from_function.
ast_finish(b) ==
  [(IF b.current_exits # <<>> THEN ast_add_node(b, IRNode("EndNode", "End"))
    ELSE b) EXCEPT !.pc = "done"]

InitAst ==
  /\ LibIdle
  /\ mfc = NoCall
  /\ ast_builder \in {ASTFlowBuilder(s) : s \in BOOLEAN}
  /\ runner = NoCall
  /\ static_builder = NoCall
  /\ tracer = NoCall

AstFrame ==
  UNCHANGED <<nodes, edges, ctx_vars, ret, sub_vars, run, threads, mfc, runner,
              static_builder, tracer>>

\* One more statement is processed.
AstMore ==
  /\ ast_builder.op # "none"
  /\ ast_builder.pc = "body"
  /\ ast_builder.stmts < MaxAstStmts

\* A call statement.
AstCall(call) ==
  /\ AstMore
  /\ LET b == process_call(ast_builder, call)
     IN ast_builder' =
          [b EXCEPT !.op = "call", !.stmts = @ + 1,
                    !.sites = Append(@,
                      [key |-> get_call_key(call),
                       frontier |-> ast_builder.current_exits,
                       nn |-> Len(ast_builder.nodes),
                       node |-> b.current_exits[1][1],
                       created |-> Len(b.nodes) > Len(ast_builder.nodes)])]
  /\ AstFrame

\* `if cond:` / `while cond:` is entered.
AstEnter(kind) ==
  /\ AstMore
  /\ ast_builder' = [ast_enter(ast_builder, kind) EXCEPT
                       !.op = kind, !.stmts = @ + 1]
  /\ AstFrame

\* `else:` of the innermost if statement.
AstElse ==
  /\ ast_builder.op # "none"
  /\ ast_builder.pc = "body"
  /\ ast_builder.stack # <<>>
  /\ Top(ast_builder.stack).kind = "if"
  /\ ast_builder' = [ast_else(ast_builder) EXCEPT !.op = "else"]
  /\ AstFrame

\* The innermost if statement ends.
AstEndIf ==
  /\ ast_builder.op # "none"
  /\ ast_builder.pc = "body"
  /\ ast_builder.stack # <<>>
  /\ Top(ast_builder.stack).kind \in {"if", "else"}
  /\ ast_builder' = [ast_end_if(ast_builder) EXCEPT !.op = "endif"]
  /\ AstFrame

\* The innermost while statement ends.
AstEndWhile ==
  /\ ast_builder.op # "none"
  /\ ast_builder.pc = "body"
  /\ ast_builder.stack # <<>>
  /\ Top(ast_builder.stack).kind = "while"
  /\ ast_builder' = [ast_end_while(ast_builder) EXCEPT !.op = "endwhile"]
  /\ AstFrame

\* A return statement.
AstReturn ==
  /\ AstMore
  /\ ast_builder' = [process_return(ast_builder) EXCEPT
                       !.op = "return", !.stmts = @ + 1]
  /\ AstFrame

\* A break or continue statement in the body of a while statement.
AstJump(kind) ==
  /\ AstMore
  /\ \E i \in DOMAIN ast_builder.stack : ast_builder.stack[i].kind = "while"
  /\ ast_builder' = [process_jump(ast_builder, kind) EXCEPT
                       !.op = kind, !.stmts = @ + 1]
  /\ AstFrame

\* The function body ends.
AstFinish ==
  /\ ast_builder.op # "none"
  /\ ast_builder.pc = "body"
  /\ ast_builder.stack = <<>>
  /\ ast_builder' = [ast_finish(ast_builder) EXCEPT !.op = "finish"]
  /\ AstFrame

NextAst ==
  \/ \E call \in AstCalls : AstCall(call)
  \/ \E kind \in {"if", "while"} : AstEnter(kind)
  \/ AstElse
  \/ AstEndIf
  \/ AstEndWhile
  \/ AstReturn
  \/ \E kind \in {"break", "continue"} : AstJump(kind)
  \/ AstFinish

SpecAst == InitAst /\ [][NextAst]_vars

\* ============================================ frontend/static.py
\* The node / decision / loop / end calls made inside one `with` block.
MaxStaticCalls == 4

\* StaticFlowBuilder.__enter__ : the chart with its Start node.  A node is
\* its position in nodes, 0 is None.  stack holds the context managers that
\* are open: decision, its yes / no branch, loop.
StaticFlowBuilder ==
  [nodes |-> <<IRNode("StartNode", "Start")>>, edges |-> <<>>,
   current_node |-> 1, pending_edge_label |-> None,
   pending_merge_nodes |-> <<>>, stack |-> <<>>,
   pc |-> "body", calls |-> 0, op |-> "enter",
   closed |-> [decision |-> 0, only_yes |-> FALSE]]

\* StaticFlowBuilder._connect_direct
connect_direct(b, source, target, label) ==
  [b EXCEPT !.edges = add_edge(@, Edge(source, target, label))]

\* StaticFlowBuilder._connect with label = None
connect(b, source, target) ==
  [connect_direct(b, source, target, b.pending_edge_label) EXCEPT
     !.pending_edge_label = None]

\* for exit_node in xs: if exit_node and not isinstance(exit_node, EndNode):
\*     self._connect_direct(exit_node, target)
RECURSIVE connect_exits(_, _, _)
connect_exits(b, xs, target) ==
  IF xs = <<>> THEN b
  ELSE connect_exits(
         IF b.nodes[Head(xs)].kind # "EndNode"
         THEN connect_direct(b, Head(xs), target, None) ELSE b,
         Tail(xs), target)

\* The part node, decision, loop and end share: add the node, connect it from
\* the pending merges or else from the current node.
static_attach(b, node) ==
  LET n == Len(b.nodes) + 1
      a == [b EXCEPT !.nodes = add_node(@, node)]
  IN IF a.pending_merge_nodes # <<>>
     THEN [connect_exits(a, a.pending_merge_nodes, n) EXCEPT
             !.pending_merge_nodes = <<>>]
     ELSE IF a.current_node # 0 THEN connect(a, a.current_node, n)
     ELSE a

\* StaticFlowBuilder.node
static_node(b, label) ==
  [static_attach(b, IRNode("ProcessNode", label)) EXCEPT
     !.current_node = Len(b.nodes) + 1]

\* StaticFlowBuilder.end
static_end(b, label) ==
  [static_attach(b, IRNode("EndNode", label)) EXCEPT
     !.current_node = Len(b.nodes) + 1]

\* StaticFlowBuilder.decision up to the yield, with its BranchContext.
\* yes_made and no_made record that the block made a node.
decision_enter(b, question) ==
  LET n == Len(b.nodes) + 1
  IN [static_attach(b, IRNode("DecisionNode", question)) EXCEPT
        !.current_node = n,
        !.stack = Append(@, [kind |-> "decision", decision |-> n,
                             yes_exits |-> <<>>, no_exits |-> <<>>,
                             has_yes |-> FALSE, has_no |-> FALSE,
                             yes_made |-> FALSE, no_made |-> FALSE])]

\* BranchContext.yes / no up to the yield ; base is the number of nodes
\* when the block starts.
branch_enter(b, which) ==
  LET f == Top(b.stack)
      g == IF which = "yes" THEN [f EXCEPT !.has_yes = TRUE]
           ELSE [f EXCEPT !.has_no = TRUE]
  IN [b EXCEPT !.current_node = f.decision,
               !.pending_edge_label = IF which = "yes" THEN "Yes" ELSE "No",
               !.pending_merge_nodes = <<>>,
               !.stack = Append(Append(Pop(@), g),
                                [kind |-> which, decision |-> f.decision,
                                 outer_merges |-> b.pending_merge_nodes,
                                 base |-> Len(b.nodes)])]

\* BranchContext.yes / no after the yield.
branch_exit(b) ==
  LET f == Top(b.stack)
      d == Top(Pop(b.stack))
      found == (IF b.current_node # 0 /\ b.current_node # f.decision
                THEN <<b.current_node>> ELSE <<>>) \o b.pending_merge_nodes
      g == IF f.kind = "yes"
           THEN [d EXCEPT !.yes_exits = @ \o found,
                          !.yes_made = Len(b.nodes) > f.base]
           ELSE [d EXCEPT !.no_exits = @ \o found,
                          !.no_made = Len(b.nodes) > f.base]
  IN [b EXCEPT !.pending_merge_nodes = f.outer_merges,
               !.stack = Append(Pop(Pop(@)), g)]

\* StaticFlowBuilder.decision after the yield ; closed records the decision
\* and whether only its yes block made nodes (no no block, or an empty one).
decision_exit(b) ==
  LET f == Top(b.stack)
      all_exits == SelectSeq(f.yes_exits \o f.no_exits,
                             LAMBDA x : b.nodes[x].kind # "EndNode")
  IN [b EXCEPT !.pending_merge_nodes = all_exits,
               !.current_node = 0,
               !.stack = Pop(@),
               !.closed = [decision |-> f.decision,
                           only_yes |-> f.yes_made /\ ~f.no_made]]

\* StaticFlowBuilder.loop up to the yield.
loop_enter(b, condition) ==
  LET n == Len(b.nodes) + 1
  IN [static_attach(b, IRNode("DecisionNode", condition)) EXCEPT
        !.current_node = n,
        !.pending_edge_label = "Yes",
        !.stack = Append(@, [kind |-> "loop", decision |-> n])]

\* StaticFlowBuilder.loop after the yield.
loop_exit(b) ==
  LET f == Top(b.stack)
      a == IF b.current_node # 0 /\ b.current_node # f.decision
           THEN connect_direct(b, b.current_node, f.decision, None) ELSE b
      c == connect_exits(a, a.pending_merge_nodes, f.decision)
  IN [c EXCEPT !.pending_merge_nodes = <<>>,
               !.current_node = f.decision,
               !.pending_edge_label = "No",
               !.stack = Pop(@)]

\* StaticFlowBuilder.__exit__ without an exception.
static_exit(b) ==
  LET n == Len(b.nodes) + 1
      a == [b EXCEPT !.nodes = add_node(@, IRNode("EndNode", "End"))]
  IN IF b.pending_merge_nodes # <<>>
     THEN [connect_exits(a, a.pending_merge_nodes, n) EXCEPT
             !.pending_merge_nodes = <<>>]
     ELSE IF b.current_node # 0 /\ b.nodes[b.current_node].kind # "EndNode"
     THEN connect_direct(a, a.current_node, n, None)
     ELSE b

InitStatic ==
  /\ LibIdle
  /\ mfc = NoCall
  /\ ast_builder = NoCall
  /\ runner = NoCall
  /\ static_builder = StaticFlowBuilder
  /\ tracer = NoCall

StaticFrame ==
  UNCHANGED <<nodes, edges, ctx_vars, ret, sub_vars, run, threads, mfc,
              ast_builder, runner, tracer>>

\* The `with` block is open.
StaticOpen == static_builder.op # "none" /\ static_builder.pc = "body"
\* One more builder call.
StaticMore == StaticOpen /\ static_builder.calls < MaxStaticCalls
\* The innermost open context manager is of one of these kinds.
StaticIn(kinds) ==
  /\ StaticOpen
  /\ static_builder.stack # <<>>
  /\ Top(static_builder.stack).kind \in kinds

\* flow.node(label)
StaticNode ==
  /\ StaticMore
  /\ static_builder' = [static_node(static_builder, "P") EXCEPT
                          !.op = "node", !.calls = @ + 1]
  /\ StaticFrame

\* flow.end(label)
StaticEnd ==
  /\ StaticMore
  /\ static_builder' = [static_end(static_builder, "Stop") EXCEPT
                          !.op = "end", !.calls = @ + 1]
  /\ StaticFrame

\* with flow.decision(question) as branch:
StaticDecision ==
  /\ StaticMore
  /\ static_builder' = [decision_enter(static_builder, "X?") EXCEPT
                          !.op = "decision", !.calls = @ + 1]
  /\ StaticFrame

\* with branch.yes(): / with branch.no():
StaticBranch(which) ==
  /\ StaticIn({"decision"})
  /\ IF which = "yes" THEN ~Top(static_builder.stack).has_yes
     ELSE ~Top(static_builder.stack).has_no
  /\ static_builder' = [branch_enter(static_builder, which) EXCEPT !.op = which]
  /\ StaticFrame

\* The branch block ends.
StaticBranchExit ==
  /\ StaticIn({"yes", "no"})
  /\ static_builder' = [branch_exit(static_builder) EXCEPT !.op = "branch_exit"]
  /\ StaticFrame

\* The decision block ends.
StaticDecisionExit ==
  /\ StaticIn({"decision"})
  /\ static_builder' = [decision_exit(static_builder) EXCEPT
                          !.op = "decision_exit"]
  /\ StaticFrame

\* with flow.loop(condition):
StaticLoop ==
  /\ StaticMore
  /\ static_builder' = [loop_enter(static_builder, "More?") EXCEPT
                          !.op = "loop", !.calls = @ + 1]
  /\ StaticFrame

\* The loop block ends.
StaticLoopExit ==
  /\ StaticIn({"loop"})
  /\ static_builder' = [loop_exit(static_builder) EXCEPT !.op = "loop_exit"]
  /\ StaticFrame

\* The `with StaticFlowBuilder(...)` block ends.
StaticExit ==
  /\ StaticOpen
  /\ static_builder.stack = <<>>
  /\ static_builder' = [static_exit(static_builder) EXCEPT
                          !.op = "exit", !.pc = "done"]
  /\ StaticFrame

NextStatic ==
  \/ StaticNode
  \/ StaticEnd
  \/ StaticDecision
  \/ \E which \in {"yes", "no"} : StaticBranch(which)
  \/ StaticBranchExit
  \/ StaticDecisionExit
  \/ StaticLoop
  \/ StaticLoopExit
  \/ StaticExit

SpecStatic == InitStatic /\ [][NextStatic]_vars

\* ============================================ frontend/tracer.py
\* The calls traced inside one `with FlowTracer(...)` block.
MaxTraceCalls == 5

\* What the traced code passes.
TraceLabels == {"Iteration", "After"}
TraceConditions == {"More?", "Again?"}

\* FlowTracer.__init__ and __enter__ : the chart with its Start node.  A node
\* is its position in nodes, 0 is None.  made records for every node the call
\* that created it, the result passed to it, and the loop head and iteration
\* of the innermost loop that was open.
FlowTracer ==
  [nodes |-> <<IRNode("StartNode", "Start")>>, edges |-> <<>>,
   current_node |-> 1, finished |-> FALSE, pending_edge_label |-> None,
   decision_stack |-> <<>>, loop_stack |-> <<>>,
   pc |-> "body", calls |-> 0, op |-> "enter",
   made |-> <<[by |-> "enter", result |-> FALSE, loop |-> 0, iteration |-> 0]>>]

\* FlowTracer._connect
tracer_connect(t, source, target, label) ==
  IF label = None /\ t.pending_edge_label # None
  THEN [t EXCEPT !.edges = add_edge(@, Edge(source, target, t.pending_edge_label)),
                 !.pending_edge_label = None]
  ELSE [t EXCEPT !.edges = add_edge(@, Edge(source, target, label))]

\* add_node, then `if self._current_node: self._connect(self._current_node, node)`
tracer_attach(t, node) ==
  LET n == Len(t.nodes) + 1
      a == [t EXCEPT !.nodes = add_node(@, node)]
  IN IF a.current_node # 0 THEN tracer_connect(a, a.current_node, n, None) ELSE a

\* FlowTracer.node
tracer_node(t, label) ==
  [tracer_attach(t, IRNode("ProcessNode", label)) EXCEPT
     !.current_node = Len(t.nodes) + 1]

\* FlowTracer.decision
tracer_decision(t, question, result) ==
  LET n == Len(t.nodes) + 1
  IN [tracer_attach(t, IRNode("DecisionNode", question)) EXCEPT
        !.decision_stack = Append(@, [node |-> n, result |-> result]),
        !.pending_edge_label = IF result THEN "Yes" ELSE "No",
        !.current_node = n]

\* FlowTracer.end_decision
end_decision(t) == [t EXCEPT !.decision_stack = Pop(@)]

\* FlowTracer.until
until(t, condition, result) ==
  IF t.loop_stack # <<>> /\ Top(t.loop_stack).condition = condition
  THEN LET decision_node == Top(t.loop_stack).node
           a == IF t.current_node # 0 /\ t.current_node # decision_node
                THEN tracer_connect(t, t.current_node, decision_node, "Yes")
                ELSE t
       IN IF result
          THEN [a EXCEPT !.current_node = decision_node,
                         !.loop_stack[Len(t.loop_stack)].iteration = @ + 1,
                         !.pending_edge_label = "Yes"]
          ELSE [a EXCEPT !.loop_stack = Pop(@),
                         !.current_node = decision_node,
                         !.pending_edge_label = "No"]
  ELSE LET n == Len(t.nodes) + 1
           a == tracer_attach(t, IRNode("DecisionNode", condition))
       IN IF result
          THEN [a EXCEPT !.loop_stack = Append(@, [condition |-> condition,
                                                   node |-> n, iteration |-> 0]),
                         !.current_node = n,
                         !.pending_edge_label = "Yes"]
          ELSE [a EXCEPT !.current_node = n, !.pending_edge_label = "No"]

\* FlowTracer.end
tracer_end(t, label) ==
  [tracer_attach(t, IRNode("EndNode", label)) EXCEPT
     !.current_node = 0, !.finished = TRUE]

\* FlowTracer.__exit__ without an exception.
tracer_exit(t) ==
  IF t.current_node # 0 /\ ~t.finished
  THEN [tracer_attach(t, IRNode("EndNode", "End")) EXCEPT !.finished = TRUE]
  ELSE t

InitTracer ==
  /\ LibIdle
  /\ mfc = NoCall
  /\ ast_builder = NoCall
  /\ runner = NoCall
  /\ static_builder = NoCall
  /\ tracer = FlowTracer

TracerFrame ==
  UNCHANGED <<nodes, edges, ctx_vars, ret, sub_vars, run, threads, mfc,
              ast_builder, runner, static_builder>>

\* One more traced call inside the `with` block.
TraceMore ==
  /\ tracer.op # "none"
  /\ tracer.pc = "body"
  /\ tracer.calls < MaxTraceCalls

\* The call op with this result took the tracer to t: the nodes it made are
\* recorded with the innermost loop that was open when it was called.
Traced(t, op, result) ==
  LET inner == IF tracer.loop_stack = <<>>
               THEN [node |-> 0, iteration |-> 0] ELSE Top(tracer.loop_stack)
  IN [t EXCEPT
        !.op = op, !.calls = @ + 1,
        !.made = IF Len(t.nodes) > Len(tracer.nodes)
                 THEN Append(@, [by |-> op, result |-> result,
                                 loop |-> inner.node,
                                 iteration |-> inner.iteration])
                 ELSE @]

\* flow.node(label)
TraceNode(label) ==
  /\ TraceMore
  /\ tracer' = Traced(tracer_node(tracer, label), "node", FALSE)
  /\ TracerFrame

\* flow.decision(question, result)
TraceDecision(result) ==
  /\ TraceMore
  /\ tracer' = Traced(tracer_decision(tracer, "Ok?", result), "decision", result)
  /\ TracerFrame

\* flow.end_decision() ; it raises RuntimeError when no decision is open.
TraceEndDecision ==
  /\ TraceMore
  /\ tracer.decision_stack # <<>>
  /\ tracer' = Traced(end_decision(tracer), "end_decision", FALSE)
  /\ TracerFrame

\* flow.until(condition, result)
TraceUntil(condition, result) ==
  /\ TraceMore
  /\ tracer' = Traced(until(tracer, condition, result), "until", result)
  /\ TracerFrame

\* flow.end()
TraceEnd ==
  /\ TraceMore
  /\ tracer' = Traced(tracer_end(tracer, "Stop"), "end", FALSE)
  /\ TracerFrame

\* The `with` block ends.
TraceExit ==
  /\ tracer.op # "none"
  /\ tracer.pc = "body"
  /\ tracer' = [Traced(tracer_exit(tracer), "exit", FALSE) EXCEPT
                  !.pc = "done", !.calls = tracer.calls]
  /\ TracerFrame

NextTracer ==
  \/ \E label \in TraceLabels : TraceNode(label)
  \/ \E result \in BOOLEAN : TraceDecision(result)
  \/ TraceEndDecision
  \/ \E condition \in TraceConditions, result \in BOOLEAN :
       TraceUntil(condition, result)
  \/ TraceEnd
  \/ TraceExit

SpecTracer == InitTracer /\ [][NextTracer]_vars

\* ============================================ core/serialization.py
\* The charts that are serialised: ids c1 and c2, each with a first node that
\* is a StartNode or not, a SubFlowNode whose target is unset, a chart or
\* unknown, and a third node that is an EndNode or a plain Node; the first k
\* of three edges.  metadata is the
\* set of the dict's items.
SerialIds == {"c1", "c2"}
SerialTargets == {None, "c1", "c2", "zz"}
SerialEdge(s, t, label, condition, metadata) ==
  [source_id |-> s, target_id |-> t, label |-> label, condition |-> condition,
   metadata |-> metadata]
SerialEdges ==
  <<SerialEdge("n1", "n2", None, None, {}),
    SerialEdge("n2", "n3", "Yes", "x > 0", {<<"note", "taken">>}),
    SerialEdge("n2", "n3", "No", None, {})>>
SerialChart(c, first, target, third, k) ==
  [id |-> c, name |-> c, metadata |-> {<<"owner", c>>},
   nodes |-> <<IRNodeOf(first, "n1", "S", None, {}),
               IRNodeOf("SubFlowNode", "n2", "go", target, {<<"foo", "bar">>}),
               IRNodeOf(third, "n3", "T", None, {})>>,
   edges |-> SubSeq(SerialEdges, 1, k)]
SerialCharts(c) ==
  {SerialChart(c, kinds[1], target, kinds[2], k) :
     kinds \in {<<"StartNode", "EndNode">>, <<"ProcessNode", "Node">>},
     target \in SerialTargets, k \in 0 .. 3}
\* The containers add_chart can leave behind: the charts in the order they
\* were added, any of them main.
SerialMultisOf(ids) ==
  {[op |-> "serial", name |-> "M", metadata |-> {}, charts |-> ids,
    main_chart_id |-> main, body |-> body] :
     main \in IF ids = <<>> THEN {None} ELSE Range(ids),
     body \in {b \in [Range(ids) -> UNION {SerialCharts(c) : c \in SerialIds}] :
                \A c \in Range(ids) : b[c].id = c}}
SerialMultis ==
  UNION {SerialMultisOf(ids) :
           ids \in {<<>>, <<"c1">>, <<"c2">>, <<"c1", "c2">>, <<"c2", "c1">>}}

\* dict.get(key) ; a dict is a record of its items.
get(d, k) == IF k \in DOMAIN d THEN d[k] ELSE None
\* `metadata or {}`
OrEmpty(m) == IF m = {} THEN {} ELSE m

\* JsonSerializer.to_dict: the node entry.
node_to_dict(node) ==
  IF node.kind = "SubFlowNode"
  THEN [id |-> node.id, type |-> node.kind, label |-> node.label,
        metadata |-> node.metadata, targetChartId |-> node.target_chart_id]
  ELSE [id |-> node.id, type |-> node.kind, label |-> node.label,
        metadata |-> node.metadata]

\* JsonSerializer.to_dict: the edge entry; idx counts from 0.
edge_to_dict(edge, idx) ==
  [id |-> <<"e", idx>>, source |-> edge.source_id, target |-> edge.target_id,
   label |-> edge.label, condition |-> edge.condition,
   metadata |-> edge.metadata]

\* JsonSerializer.to_dict ; graph holds the edge ids per node id.
to_dict(flowchart) ==
  LET es == flowchart.edges
      ids == {flowchart.nodes[i].id : i \in DOMAIN flowchart.nodes}
      lookup(side) ==
        [n \in {x \in ids : \E i \in DOMAIN es : es[i][side] = x} |->
           [j \in 1 .. Cardinality({i \in DOMAIN es : es[i][side] = n}) |->
              <<"e", (CHOOSE i \in DOMAIN es :
                        /\ es[i][side] = n
                        /\ Cardinality({h \in 1 .. i : es[h][side] = n}) = j) - 1>>]]
  IN [name |-> flowchart.name, metadata |-> flowchart.metadata,
      nodes |-> [i \in DOMAIN flowchart.nodes |-> node_to_dict(flowchart.nodes[i])],
      edges |-> [i \in DOMAIN es |-> edge_to_dict(es[i], i - 1)],
      graph |-> [incomingEdges |-> lookup("target_id"),
                 outgoingEdges |-> lookup("source_id")]]

\* NODE_TYPE_MAP.get(type_name, Node)
NODE_TYPE_MAP(type_name) ==
  IF type_name \in {"Node", "StartNode", "EndNode", "ProcessNode",
                    "DecisionNode", "SubFlowNode"}
  THEN type_name ELSE "Node"

\* JsonSerializer.from_dict: the node of an entry.
node_from_dict(node_data) ==
  LET cls == NODE_TYPE_MAP(get(node_data, "type"))
  IN IF cls = "SubFlowNode"
     THEN IRNodeOf(cls, get(node_data, "id"), get(node_data, "label"),
                   get(node_data, "targetChartId"),
                   OrEmpty(get(node_data, "metadata")))
     ELSE IRNodeOf(cls, get(node_data, "id"), get(node_data, "label"), None,
                   OrEmpty(get(node_data, "metadata")))

\* JsonSerializer.from_dict: the loop over data["nodes"], from entry i on;
\* chart.add_node raises ValueError on an id that is there already.
RECURSIVE nodes_from_dict(_, _, _)
nodes_from_dict(chart, nodes_data, i) ==
  IF chart.raised \/ i > Len(nodes_data) THEN chart
  ELSE LET node == node_from_dict(nodes_data[i])
       IN nodes_from_dict(
            IF HasNode(chart.nodes, node.id) THEN [chart EXCEPT !.raised = TRUE]
            ELSE [chart EXCEPT !.nodes = add_node(@, node)],
            nodes_data, i + 1)

\* A skip test that looks at the endpoints only.
skip_edge_missing_only(chart, edge_data, skip_cross_chart_edges) ==
  /\ skip_cross_chart_edges
  /\ \/ ~HasNode(chart.nodes, edge_data.source)
     \/ ~HasNode(chart.nodes, edge_data.target)

\* JsonSerializer.from_dict: the edges that skip_cross_chart_edges leaves out.
skip_edge(chart, edge_data, skip_cross_chart_edges) ==
  /\ skip_cross_chart_edges
  /\ \/ <<"crossChart", TRUE>> \in OrEmpty(get(edge_data, "metadata"))
     \/ ~HasNode(chart.nodes, edge_data.source)
     \/ ~HasNode(chart.nodes, edge_data.target)

\* JsonSerializer.from_dict: the loop over data["edges"], from entry i on;
\* chart.add_edge raises ValueError on an unknown endpoint.
RECURSIVE edges_from_dict(_, _, _, _)
edges_from_dict(chart, edges_data, i, skip_cross_chart_edges) ==
  IF chart.raised \/ i > Len(edges_data) THEN chart
  ELSE LET edge_data == edges_data[i]
           edge == SerialEdge(edge_data.source, edge_data.target,
                              get(edge_data, "label"), get(edge_data, "condition"),
                              OrEmpty(get(edge_data, "metadata")))
           skipped == skip_edge(chart, edge_data, skip_cross_chart_edges)
       IN edges_from_dict(
            IF skipped THEN chart
            ELSE IF Dangling(chart.nodes, edge) THEN [chart EXCEPT !.raised = TRUE]
            ELSE [chart EXCEPT !.edges = add_edge(@, edge)],
            edges_data, i + 1, skip_cross_chart_edges)

\* JsonSerializer.from_dict ; the new chart has an id of its own.
from_dict(data, skip_cross_chart_edges) ==
  LET chart == [id |-> "uuid", name |-> get(data, "name"),
                metadata |-> OrEmpty(get(data, "metadata")),
                nodes |-> <<>>, edges |-> <<>>, raised |-> FALSE]
  IN edges_from_dict(nodes_from_dict(chart, data.nodes, 1), data.edges, 1,
                     skip_cross_chart_edges)

\* FlowChart.get_start_node: the id of the first StartNode, or None.
get_start_node(chart) ==
  LET starts == {i \in DOMAIN chart.nodes : chart.nodes[i].kind = "StartNode"}
  IN IF starts = {} THEN None ELSE chart.nodes[MinOf(starts)].id

\* f"Go to: {target_chart.name}"
GoTo(name) == IF name = "c1" THEN "Go to: c1" ELSE "Go to: c2"

\* JsonSerializer.multi_to_dict: the cross-chart edges of the chart at
\* chart_idx, one per SubFlowNode whose target chart has a start node.
cross_edges(multi_chart, chart_idx, nodes_data) ==
  LET linked(i) ==
        /\ nodes_data[i].type = "SubFlowNode"
        /\ nodes_data[i].targetChartId # None
        /\ nodes_data[i].targetChartId \in Range(multi_chart.charts)
        /\ get_start_node(multi_chart.body[nodes_data[i].targetChartId]) # None
      links == SelectSeq([i \in DOMAIN nodes_data |-> i], linked)
  IN [j \in DOMAIN links |->
        [id |-> <<"c", chart_idx, "cross", j - 1>>,
         source |-> nodes_data[links[j]].id,
         target |-> get_start_node(
                      multi_chart.body[nodes_data[links[j]].targetChartId]),
         label |-> GoTo(multi_chart.body[nodes_data[links[j]].targetChartId].name),
         condition |-> None,
         metadata |-> {<<"crossChart", TRUE>>, <<"hidden", TRUE>>}]]

\* JsonSerializer.multi_to_dict: the entry of the chart at chart_idx.  The
\* lookup entries of the navigation edges, which no reader in the library
\* uses, are left out.
chart_to_dict(multi_chart, chart_idx) ==
  LET chart_id == multi_chart.charts[chart_idx + 1]
      d == to_dict(multi_chart.body[chart_id])
      renamed == [i \in DOMAIN d.edges |->
                    [d.edges[i] EXCEPT !.id = <<"c", chart_idx>> \o @]]
      relabel(m) == [n \in DOMAIN m |->
                       [j \in DOMAIN m[n] |-> <<"c", chart_idx>> \o m[n][j]]]
  IN [id |-> chart_id, name |-> d.name, metadata |-> d.metadata,
      nodes |-> d.nodes,
      edges |-> renamed \o cross_edges(multi_chart, chart_idx, d.nodes),
      graph |-> [incomingEdges |-> relabel(d.graph.incomingEdges),
                 outgoingEdges |-> relabel(d.graph.outgoingEdges)]]

\* JsonSerializer.multi_to_dict ; keys is the order of the items of "charts".
multi_to_dict(multi_chart) ==
  [type |-> "MultiFlowChart", name |-> multi_chart.name,
   metadata |-> multi_chart.metadata,
   mainChartId |-> multi_chart.main_chart_id,
   keys |-> multi_chart.charts,
   charts |-> [c \in Range(multi_chart.charts) |->
                 chart_to_dict(multi_chart,
                   (CHOOSE i \in DOMAIN multi_chart.charts :
                      multi_chart.charts[i] = c) - 1)]]

\* JsonSerializer.multi_from_dict: the loop over the charts, from item i on.
RECURSIVE charts_from_dict(_, _, _)
charts_from_dict(multi_chart, data, i) ==
  IF multi_chart.raised \/ i > Len(data.keys) THEN multi_chart
  ELSE LET chart_id == data.keys[i]
           chart == [from_dict(data.charts[chart_id], TRUE) EXCEPT !.id = chart_id]
           added == add_chart(multi_chart, chart_id, chart_id = data.mainChartId)
       IN charts_from_dict(
            IF chart.raised THEN [multi_chart EXCEPT !.raised = TRUE]
            ELSE IF added.raised THEN added
            ELSE [added EXCEPT !.body = Put(@, chart_id, chart)],
            data, i + 1)

\* JsonSerializer.multi_from_dict
multi_from_dict(data) ==
  charts_from_dict(
    [name |-> get(data, "name"), metadata |-> OrEmpty(get(data, "metadata")),
     charts |-> <<>>, main_chart_id |-> None, raised |-> FALSE, body |-> <<>>],
    data, 1)

InitSerial ==
  /\ LibIdle
  /\ mfc \in SerialMultis
  /\ ast_builder = NoCall /\ runner = NoCall
  /\ static_builder = NoCall /\ tracer = NoCall

SerialFrame ==
  UNCHANGED <<nodes, edges, ctx_vars, sub_vars, run, threads, mfc,
              ast_builder, runner, static_builder, tracer>>

\* data = JsonSerializer.to_dict(chart)
SerialToDict(c) ==
  /\ mfc.op = "serial" /\ c \in Range(mfc.charts)
  /\ ret' = [op |-> "to_dict", chart |-> c, data |-> to_dict(mfc.body[c])]
  /\ SerialFrame

\* JsonSerializer.from_dict(data)
SerialFromDict ==
  /\ mfc.op = "serial" /\ ret.op = "to_dict"
  /\ ret' = [op |-> "from_dict", chart |-> ret.chart,
             result |-> from_dict(ret.data, FALSE)]
  /\ SerialFrame

\* data = JsonSerializer.multi_to_dict(multi_chart)
SerialMultiToDict ==
  /\ mfc.op = "serial" /\ ret.op # "multi_to_dict"
  /\ ret' = [op |-> "multi_to_dict", data |-> multi_to_dict(mfc)]
  /\ SerialFrame

\* JsonSerializer.multi_from_dict(data)
SerialMultiFromDict ==
  /\ mfc.op = "serial" /\ ret.op = "multi_to_dict"
  /\ ret' = [op |-> "multi_from_dict", data |-> ret.data,
             result |-> multi_from_dict(ret.data)]
  /\ SerialFrame

NextSerial ==
  \/ \E c \in SerialIds : SerialToDict(c)
  \/ SerialFromDict
  \/ SerialMultiToDict
  \/ SerialMultiFromDict

SpecSerial == InitSerial /\ [][NextSerial]_vars

\* ================================== frontend/dsl.py: the decision stack
\* FlowBuilder._build for a procedure of the fourth kind.
InitCond ==
  /\ nodes = <<IRNode("Start", "F")>>
  /\ edges = <<>>
  /\ exits = <<NodeExit(1, None)>>
  /\ decision_stack = <<>>
  /\ loop_stack = <<>>
  /\ used_nodes = {}
  /\ ir_nodes = [x \in NodeDefs |-> <<>>]
  /\ current_ir_node = [x \in NodeDefs |-> 0]
  /\ ir_node = [x \in DecisionDefs |-> 0]
  /\ frames = <<>>
  /\ pc = "building"
  /\ last = NoEv
  /\ prev = NoEv
  /\ calls = [n |-> [x \in NodeDefs |-> 0],
              targets |-> [x \in NodeDefs |-> <<>>],
              preds |-> [x \in NodeDefs |-> {}],
              unreached |-> [x \in NodeDefs |-> 0]]
  /\ hist = [shape |-> "straight", stmts |-> 0, nsteps |-> 0, two_sided |-> {}]
  /\ profile = "cond"
  /\ ret = NoCall
  /\ SubIdle
  /\ ExtIdle

\* A decision called as a statement, `d()` or `flow.decision(...)`:
\* _execute_call -> FlowContext._add_decision_node, whose push stays on the
\* decision stack.  An entry is the definition and its _ir_node.
Decision(def) ==
  /\ Building("decision")
  /\ add_decision_node(def)
  /\ exits' = <<>>
  /\ decision_stack' = Append(decision_stack,
                              [def |-> def, node |-> DecisionTarget(def)])
  /\ Record([Ev("decision", DecisionTarget(def)) EXCEPT
               !.node = DecisionTarget(def), !.def = def])
  /\ hist' = [hist EXCEPT !.stmts = @ + 1, !.shape = "other"]
  /\ UNCHANGED <<loop_stack, current_ir_node, frames, pc>>

\* _process_if for `if x:` / `if not x:`, a condition that is no call
\* (dsl.py 565-603): nothing is executed, the stack is tested and popped.
PlainIf(negated) ==
  /\ Building("ifPlain")
  /\ \/ /\ decision_stack = <<>>
        /\ Raise
     \/ /\ decision_stack # <<>>
        /\ LET d == Top(decision_stack)
           IN /\ exits' = <<NodeExit(d.node, body_label(d.def, negated))>>
              /\ frames' = Append(frames, Frame("if", d.def, d.node, negated))
              /\ Record([Ev("ifPlain", 0) EXCEPT !.node = d.node, !.def = d.def,
                                                 !.neg = negated])
        /\ decision_stack' = Pop(decision_stack)
        /\ hist' = [hist EXCEPT !.stmts = @ + 1, !.shape = "other"]
        /\ UNCHANGED <<nodes, edges, loop_stack, used_nodes, ir_nodes,
                       current_ir_node, ir_node, pc, calls>>

\* _process_while for `while x:` / `while not x:` (dsl.py 684-718).
PlainWhile(negated) ==
  /\ Building("whilePlain")
  /\ \/ /\ decision_stack = <<>>
        /\ Raise
     \/ /\ decision_stack # <<>>
        /\ LET d == Top(decision_stack)
           IN /\ loop_stack' = Append(loop_stack, LoopEntry(d.node))
              /\ exits' = <<NodeExit(d.node, body_label(d.def, negated))>>
              /\ frames' = Append(frames, Frame("while", d.def, d.node, negated))
              /\ Record([Ev("whilePlain", 0) EXCEPT !.node = d.node,
                           !.def = d.def, !.neg = negated])
        /\ decision_stack' = Pop(decision_stack)
        /\ hist' = [hist EXCEPT !.stmts = @ + 1, !.shape = "other"]
        /\ UNCHANGED <<nodes, edges, used_nodes, ir_nodes, current_ir_node,
                       ir_node, pc, calls>>

NextCond ==
  \/ Step
  \/ \E def \in DecisionDefs \cup {Inline} : Decision(def)
  \/ \E t \in IfTests("cond") : IfEnter(t[1], t[2])
  \/ \E negated \in BOOLEAN : PlainIf(negated)
  \/ \E negated \in BOOLEAN : PlainWhile(negated)
  \/ ElseEnter
  \/ IfEnd
  \/ WhileEnd
  \/ Finish

SpecCond == InitCond /\ [][NextCond]_vars

\* ====================== frontend/dsl.py: a lazy build inside a build
\* Flow p is being assembled; its statement `q()` is the first use of the
\* subflow q, whose _build then runs inside p's and returns to it.  Both
\* procedures are straight lines of calls of the reusable steps a and b and
\* of flow.step.
\* The flow whose body is being processed.
Inner(w) == IF w.flows["q"].pc = "building" THEN "q" ELSE "p"

\* What p's build has at hand around the nested build: the global
\* _current_flow, p's frontier and the instance state of the definitions.
Snapshot(w) ==
  [current_flow |-> w.current_flow, exits |-> w.flows["p"].exits,
   defs |-> w.defs]

\* An exception that leaves q's _build passes through _ensure_built and
\* _invoke into p's _process_statements and leaves p's _build as well.
N_after(w, t) ==
  IF w.raised /\ t = "q"
  THEN W_finally([W_finally(w, "q") EXCEPT !.raised = TRUE], "p")
  ELSE W_after(w, t)

\* One statement, `d()` or `flow.step(...)`, of the body of flow t.
N_statement(w, t, kind, d) ==
  LET v == [w EXCEPT !.flows[t].prog = Append(@, kind)]
  IN N_after(IF kind = "call" THEN W_call(v, t, d) ELSE W_step(v, t), t)

\* The tail of SubflowBuilder._invoke in p: _add_subflow_node.
N_add_subflow_node(w) ==
  LET a == W_add_node(w, "p", "SubFlow")
      k == W_connect_exits(a, "p", 1, a.node)
  IN W_after(IF k.raised THEN k
             ELSE [k EXCEPT !.flows["p"].exits =
                               <<[is_def |-> FALSE, ref |-> a.node]>>], "p")

\* The end of q's body: the automatic End node and q's finally block; then
\* _ensure_built returns and _invoke goes on in p.
N_return(w) ==
  LET a == W_add_node(w, "q", "End")
      k == IF w.flows["q"].exits = <<>> THEN w
           ELSE W_connect_exits(a, "q", 1, a.node)
  IN IF k.raised THEN N_after(k, "q") ELSE W_finally(k, "q")

InitNested ==
  /\ nodes = <<>>
  /\ edges = <<>>
  /\ ret = NoCall
  /\ CtxIdle
  /\ SubIdle
  /\ run = 1
  /\ threads = World0
  /\ mfc = NoCall
  /\ ast_builder = NoCall
  /\ runner = NoCall
  /\ static_builder = NoCall
  /\ tracer = NoCall

NestedFrame ==
  UNCHANGED <<nodes, edges, ctx_vars, sub_vars, run, mfc, ast_builder, runner,
              static_builder, tracer>>

\* @Flow decorates p: FlowBuilder._build starts.
NestedBegin ==
  /\ threads.flows["p"].pc = "new"
  /\ threads' = W_begin(threads, "p")
  /\ ret' = ret
  /\ NestedFrame

\* The next statement of the body being processed is `d()` or flow.step.
NestedStatement(kind, d) ==
  /\ threads.flows["p"].pc = "building"
  /\ Len(threads.flows[Inner(threads)].prog) < MaxThreadStmts
  /\ threads' = N_statement(threads, Inner(threads), kind, d)
  /\ ret' = ret
  /\ NestedFrame

\* The next statement of p is `q()`: _invoke, _ensure_built, and q's _build
\* up to its try block.  ret keeps what p had at hand before the call.
NestedInvoke ==
  /\ threads.flows["p"].pc = "building"
  /\ threads.flows["q"].pc = "new"
  /\ Len(threads.flows["p"].prog) < MaxThreadStmts
  /\ threads' = W_begin([threads EXCEPT !.flows["p"].prog = Append(@, "invoke")],
                        "q")
  /\ ret' = [op |-> "ensure_built", before |-> Snapshot(threads),
             returned |-> FALSE, after |-> Snapshot(threads)]
  /\ NestedFrame

\* The body being processed ends.  For q, ret keeps what p has at hand when
\* _ensure_built has returned, and p's SubFlowNode is added.
NestedFinish ==
  /\ threads.flows["p"].pc = "building"
  /\ IF Inner(threads) = "q"
     THEN LET w == N_return(threads)
          IN IF w.flows["q"].pc = "error"
             THEN threads' = w /\ ret' = ret
             ELSE /\ threads' = N_add_subflow_node(w)
                  /\ ret' = [ret EXCEPT !.returned = TRUE, !.after = Snapshot(w)]
     ELSE threads' = W_finish(threads, "p") /\ ret' = ret
  /\ NestedFrame

NextNested ==
  \/ NestedBegin
  \/ \E kind \in {"call", "step"}, d \in ThreadDefs : NestedStatement(kind, d)
  \/ NestedInvoke
  \/ NestedFinish

SpecNested == InitNested /\ [][NextNested]_vars

\* ============================================================ properties
\* The instances of a reusable step in the chart, and its call sites' data.
Instances(def) == {i \in DOMAIN nodes : nodes[i] = IRNode("Process", def)}
Sites(def) == calls.n[def]
SiteTargets(def) == Range(calls.targets[def])
\* Every call site of def had its frontier entry connected to a next step.
AllSitesFlowed(def) == Sites(def) >= 1 /\ Len(calls.targets[def]) = Sites(def)
AllInEdges(S) == UNION {InEdges(edges, n) : n \in S}
AllOutEdges(S) == UNION {OutEdges(edges, n) : n \in S}

\* The node a frontier entry stands for: itself, or an instance of its step.
EntrySource(e, n) ==
  IF e.is_def THEN nodes[n] = IRNode("Process", e.def) ELSE n = e.ref
\* Entry e has an edge, carrying its pending label, into node tgt.
EntryConnected(e, tgt) ==
  \E i \in DOMAIN edges : /\ edges[i].target_id = tgt
                          /\ edges[i].label = e.label
                          /\ EntrySource(e, edges[i].source_id)
\* Edge i leaves one of the entries of xs with that entry's label.
EdgeFromEntries(i, xs) ==
  \E j \in DOMAIN xs : /\ edges[i].label = xs[j].label
                       /\ EntrySource(xs[j], edges[i].source_id)
\* The edges added by the statement processed last.
NewEdges == {i \in DOMAIN edges : i > last.ne}
\* The statement processed last connected the frontier into a node.
Connected == last.ev \in ConnectEvs /\ last.tgt # 0
\* The branch labels a decision construct is to use, from its definition.
ThenLabel(e) == IF e.neg THEN no_label(e.def) ELSE yes_label(e.def)
ElseLabel(e) == IF e.neg THEN yes_label(e.def) ELSE no_label(e.def)

\* Entry e has an edge, whatever its label, into the loop head.
BackEdge(e, head) ==
  \E i \in DOMAIN edges : /\ edges[i].target_id = head
                          /\ EntrySource(e, edges[i].source_id)
\* The statement processed last is a statement of a block, not its end.
Statement ==
  last.ev \in {"step", "call", "end", "return", "if", "while", "loop",
               "continue", "break"}
LoopEnded(e) == e.ev \in {"whileEnd", "loopEnd"}

\* C1 (as stated): a step invoked from k call sites with pairwise distinct
\* next-step targets has exactly k instances; if all k call sites have the
\* same next-step target there is exactly 1 instance, with k incoming edges
\* and exactly 1 outgoing edge (every call site being reachable).
C1_SharedNodeAsStated ==
  \A def \in NodeDefs :
    (pc = "done" /\ AllSitesFlowed(def) /\ calls.unreached[def] = 0) =>
      /\ Cardinality(SiteTargets(def)) = Sites(def) =>
           Cardinality(Instances(def)) = Sites(def)
      /\ Cardinality(SiteTargets(def)) = 1 =>
           /\ Cardinality(Instances(def)) = 1
           /\ Cardinality(AllInEdges(Instances(def))) = Sites(def)
           /\ Cardinality(AllOutEdges(Instances(def))) = 1

\* C1 (amended): k call sites with pairwise distinct next-step targets give
\* exactly k instances; k call sites with one common next-step target give
\* exactly 1 instance with exactly 1 outgoing edge, and its incoming edges are
\* one per distinct (predecessor, label) frontier entry that reached a call
\* site, which is not k in general.
C1_SharedNode ==
  \A def \in NodeDefs :
    (pc = "done" /\ AllSitesFlowed(def)) =>
      /\ Cardinality(SiteTargets(def)) = Sites(def) =>
           Cardinality(Instances(def)) = Sites(def)
      /\ Cardinality(SiteTargets(def)) = 1 =>
           /\ Cardinality(Instances(def)) = 1
           /\ Cardinality(AllOutEdges(Instances(def))) = 1
           /\ Cardinality(AllInEdges(Instances(def))) =
                Cardinality(calls.preds[def])

\* Two call sites flowing into two distinct targets gave two instances.
C1_Witness ==
  /\ pc = "done"
  /\ AllSitesFlowed("a")
  /\ Sites("a") = 2
  /\ Cardinality(SiteTargets("a")) = 2
  /\ Cardinality(Instances("a")) = 2

\* C2 (as stated, for procedures of steps, ends and decisions): the Decision
\* node of every if/else has exactly two outgoing edges, one with the yes
\* label and one with the no label; the then-body leaves the decision by the
\* yes label and the else-body by the no label, swapped iff negated.
C2_TwoSidedAsStated ==
  /\ last.ev = "if" => exits = <<NodeExit(last.node, ThenLabel(last))>>
  /\ last.ev = "else" => exits = <<NodeExit(last.node, ElseLabel(last))>>
  /\ (pc = "done" /\ hist.shape \in {"straight", "branching"}) =>
       \A n \in hist.two_sided :
         /\ Cardinality(OutEdges(edges, n)) = 2
         /\ {edges[i].label : i \in OutEdges(edges, n)} =
              {yes_label(nodes[n].label), no_label(nodes[n].label)}

\* C3: after a decision with no else-body, the node of the construct that
\* follows receives an edge from the Decision node labelled with the else
\* label (no, or yes when negated), and an edge from every entry the
\* then-body left in the frontier, with that entry's label.
C3_NoElseFreeFall ==
  (prev.ev = "ifEnd" /\ ~prev.two /\ Connected) =>
    /\ HasEdge(edges, prev.node, last.tgt, ElseLabel(prev))
    /\ \A j \in DOMAIN prev.a : EntryConnected(prev.a[j], last.tgt)

\* A step follows a one-sided decision whose then-body fell through.
C3_Witness ==
  /\ prev.ev = "ifEnd" /\ ~prev.two /\ prev.neg
  /\ prev.a # <<>> /\ prev.a[1].ref # prev.node
  /\ last.ev = "step"
  /\ HasEdge(edges, prev.node, last.tgt, yes_label(prev.def))

\* C4: after a two-sided decision the frontier is the union of the two
\* bodies' frontiers; the next construct's node receives an edge from every
\* entry of either, with the entry's label, the edges it receives come from
\* those entries only, and a node it creates has no other incoming edge.
C4_BranchMerge ==
  /\ (last.ev = "ifEnd" /\ last.two) =>
       Range(exits) = Range(last.a) \cup Range(last.b)
  /\ (prev.ev = "ifEnd" /\ prev.two /\ Connected) =>
       /\ \A j \in DOMAIN prev.a : EntryConnected(prev.a[j], last.tgt)
       /\ \A j \in DOMAIN prev.b : EntryConnected(prev.b[j], last.tgt)
       /\ \A i \in NewEdges : /\ edges[i].target_id = last.tgt
                              /\ EdgeFromEntries(i, prev.a \o prev.b)
       /\ last.tgt > last.nn => InEdges(edges, last.tgt) = NewEdges

\* The final End merges the two bodies of a decision, each of which left a
\* node of its own in the frontier.
C4_Witness ==
  /\ prev.ev = "ifEnd" /\ prev.two
  /\ prev.a # <<>> /\ prev.b # <<>>
  /\ prev.a[1].ref # prev.node /\ prev.b[1].ref # prev.node
  /\ last.ev = "finish"
  /\ Cardinality(InEdges(edges, last.tgt)) = 2

\* C5 (as stated): the construct after a decision receives no edge from an
\* End node of a branch or from a node of a path a branch terminated (by end
\* or return); when both branches terminate the frontier is empty.
C5_NoSpuriousMergeAsStated ==
  /\ (prev.ev = "ifEnd" /\ Connected) =>
       \A i \in NewEdges : edges[i].source_id \notin prev.dead
  /\ (last.ev = "ifEnd" /\ last.two /\ last.a = <<>> /\ last.b = <<>>) =>
       exits = <<>>

\* C6 (as stated): at the end of a pre-test loop every entry left by the body
\* has a back-edge to the head Decision; and once the construct after the
\* loop is connected the head has exactly one exit edge, labelled with the
\* exit label and going to that construct, besides the edges of breaks.
C6_PreTestLoopAsStated ==
  /\ last.ev = "whileEnd" =>
       /\ nodes[last.node].kind = "Decision"
       /\ \A j \in DOMAIN last.from : BackEdge(last.from[j], last.node)
  /\ (prev.ev = "whileEnd" /\ Connected) =>
       LET exit_edges == {i \in OutEdges(edges, prev.node) :
                            /\ edges[i].label = ElseLabel(prev)
                            /\ ~EdgeFromEntries(i, prev.b)}
       IN /\ Cardinality(exit_edges) = 1
          /\ \A i \in exit_edges : edges[i].target_id = last.tgt

\* C7 (as stated): a break adds no edge, appends the frontier to the
\* innermost loop's accumulator only and empties the frontier; when a loop
\* ends its accumulated entries are in the frontier, and the construct after
\* the loop receives an edge from each with its label - a construct that is
\* never the head of that loop.
C7_BreakAsStated ==
  /\ last.ev = "break" =>
       /\ exits = <<>>
       /\ Len(edges) = last.ne
       /\ Top(loop_stack).break_exits = Top(last.stack).break_exits \o last.from
       /\ Pop(loop_stack) = Pop(last.stack)
  /\ LoopEnded(last) => Range(last.b) \subseteq Range(exits)
  /\ (LoopEnded(prev) /\ Connected) =>
       /\ \A j \in DOMAIN prev.b : EntryConnected(prev.b[j], last.tgt)
       /\ prev.b # <<>> => last.tgt # prev.node

\* C8: a continue adds an edge, with the entry's label, from every frontier
\* entry to the head of the innermost loop, adds no other edge, and empties
\* the frontier; the statement after it in the block receives no edge.
C8_Continue ==
  /\ last.ev = "continue" =>
       /\ exits = <<>>
       /\ last.node = Top(loop_stack).node
       /\ \A j \in DOMAIN last.from : EntryConnected(last.from[j], last.node)
       /\ \A i \in NewEdges : /\ edges[i].target_id = last.node
                              /\ EdgeFromEntries(i, last.from)
  /\ (prev.ev = "continue" /\ Statement) => NewEdges = {}

\* A step follows a continue that connected the frontier to the loop head.
C8_Witness ==
  /\ prev.ev = "continue"
  /\ prev.from # <<>>
  /\ \A j \in DOMAIN prev.from : EntryConnected(prev.from[j], prev.node)
  /\ last.ev = "step"
  /\ InEdges(edges, last.tgt) = {}

\* C9: the head of a `while True` loop is a Process anchor; every entry the
\* body leaves gets a back-edge to it; the frontier after the loop is exactly
\* the break accumulator, so what follows receives edges from break entries
\* only, and with no break receives none and no End node is appended.
C9_InfiniteLoop ==
  /\ last.ev = "loop" =>
       /\ nodes[last.node] = IRNode("Process", "(loop)")
       /\ exits = <<NodeExit(last.node, None)>>
  /\ last.ev = "loopEnd" =>
       /\ nodes[last.node].kind # "Decision"
       /\ \A j \in DOMAIN last.from : BackEdge(last.from[j], last.node)
       /\ exits = last.b
  /\ (prev.ev = "loopEnd" /\ last.ev \in ConnectEvs) =>
       /\ \A i \in NewEdges : EdgeFromEntries(i, prev.b)
       /\ (prev.b = <<>> /\ last.ev = "finish") =>
            /\ Len(nodes) = last.nn
            /\ \A n \in DOMAIN nodes : nodes[n].kind # "End"

\* A procedure ending in a `while True` loop with a step and no break is
\* finished without any End node.
C9_Witness ==
  /\ pc = "done"
  /\ prev.ev = "loopEnd" /\ prev.b = <<>>
  /\ prev.from # <<>> /\ prev.from[1].ref # prev.node
  /\ last.ev = "finish" /\ last.tgt = 0

\* C10 (as stated): a procedure made only of n step invocations, inline or
\* reusable, yields the simple path Start -> step1 -> ... -> stepn -> End:
\* n+2 nodes, n+1 edges, no self-loop, one outgoing edge for every node but
\* End and one incoming edge for every node but Start.
C10_StraightLineAsStated ==
  (pc = "done" /\ hist.shape = "straight") =>
    /\ Len(nodes) = hist.nsteps + 2
    /\ Len(edges) = hist.nsteps + 1
    /\ \A i \in DOMAIN edges : edges[i].source_id # edges[i].target_id
    /\ \A n \in DOMAIN nodes :
         /\ nodes[n].kind # "End" => Cardinality(OutEdges(edges, n)) = 1
         /\ nodes[n].kind # "Start" => Cardinality(InEdges(edges, n)) = 1


\* Two edges with the same ordered (source, target, label) triple.
SameTriple(e, f) ==
  /\ e.source_id = f.source_id
  /\ e.target_id = f.target_id
  /\ e.label = f.label
Copies(es, e) == {i \in DOMAIN es : SameTriple(es[i], e)}
AddedEdge == ret.op = "add_edge" /\ ~ret.raised

\* C11: after an add_edge that did not fail the chart holds exactly one edge
\* with the call's (source, target, label); a call repeating a triple already
\* in the chart returns the object stored by the earlier call, not its own
\* argument, and leaves the edge list and the node map as they were.
C11_AddEdgeIdempotent ==
  AddedEdge =>
    /\ Cardinality(Copies(edges, ret.arg)) = 1
    /\ \A i \in Copies(edges, ret.arg) : ret.result = edges[i].obj
    /\ Copies(ret.edges, ret.arg) # {} =>
         /\ ret.result # ret.arg.obj
         /\ edges = ret.edges
         /\ nodes = ret.nodes

\* A labelled edge was passed to add_edge a second time.
C11_Witness ==
  /\ AddedEdge
  /\ ret.arg.label = "Yes"
  /\ Copies(ret.edges, ret.arg) # {}
  /\ ret.result < ret.arg.obj

\* C12: after any sequence of add_node / add_edge calls, failed ones
\* included, every edge's endpoints are ids of nodes of the chart, no two
\* edges share a (source, target, label) triple, no call removes or reorders
\* an edge, and an edge whose triple is new is appended even when edges
\* between the same pair with another label, or none, exist.
C12_EdgeListInvariant ==
  /\ \A i \in DOMAIN edges : /\ HasNode(nodes, edges[i].source_id)
                             /\ HasNode(nodes, edges[i].target_id)
  /\ \A i, j \in DOMAIN edges : SameTriple(edges[i], edges[j]) => i = j
  /\ ret.op \in {"add_node", "add_edge"} =>
       /\ Len(ret.edges) <= Len(edges)
       /\ SubSeq(edges, 1, Len(ret.edges)) = ret.edges
  /\ (AddedEdge /\ Copies(ret.edges, ret.arg) = {}) =>
       edges = Append(ret.edges, ret.arg)

\* A labelled edge was appended next to an unlabelled one of the same pair,
\* after a call that failed.
C12_Witness ==
  /\ AddedEdge
  /\ Len(edges) = 2
  /\ edges[1].label = None /\ edges[2].label = "No"
  /\ edges[1].source_id = edges[2].source_id
  /\ edges[1].target_id = edges[2].target_id
  /\ ret.calls = 4

\* C13: add_node fails exactly when the id is present, add_edge exactly when
\* its source or its target is absent, and a failed call leaves the node map
\* and the edge list as they were.
C13_FailuresLeaveGraph ==
  /\ ret.op = "add_node" => (ret.raised <=> HasNode(ret.nodes, ret.arg.id))
  /\ ret.op = "add_edge" =>
       (ret.raised <=> ~(/\ HasNode(ret.nodes, ret.arg.source_id)
                         /\ HasNode(ret.nodes, ret.arg.target_id)))
  /\ (ret.op \in {"add_node", "add_edge"} /\ ret.raised) =>
       /\ nodes = ret.nodes
       /\ edges = ret.edges

\* An add_edge whose source is present and whose target is not has failed on
\* a chart that already holds an edge.
C13_Witness ==
  /\ ret.op = "add_edge" /\ ret.raised
  /\ HasNode(nodes, ret.arg.source_id)
  /\ ~HasNode(nodes, ret.arg.target_id)
  /\ edges # <<>>

\* The subflows a chart calls, and the targets its call sites of one subflow got.
Callees(bs, b) == {bs[b].links[i].callee : i \in DOMAIN bs[b].links}
LinkTargets(bs, b, s) ==
  {bs[b].links[i].target_chart_id : i \in {j \in DOMAIN bs[b].links : bs[b].links[j].callee = s}}
Returned == multi.root # None /\ ~multi.raised

\* C14: Scenario C.  When subflow A calls subflow B and B calls A back,
\* multi_chart of A's builder completes without error, contains the charts of
\* A and B, and the link in A targets B's chart and the link in B targets A's.
C14_ScenarioCAsStated ==
  \A A \in Subflows, B \in Subflows :
    ( /\ A # B
      /\ multi.root = A
      /\ registry[A].name # registry[B].name
      /\ B \in Callees(multi.before, A)
      /\ A \in Callees(multi.before, B) )
    => /\ ~multi.raised
       /\ {A, B} \subseteq Range(multi.charts)
       /\ LinkTargets(builders, A, B) = {registry[B].chart}
       /\ LinkTargets(builders, B, A) = {registry[A].chart}

\* C15: in the multi chart that multi_chart returns, every SubFlowNode of every
\* contained chart has a target that is the chart of the subflow invoked at
\* that call site, a chart of the same multi chart; and a target that was set
\* before the final name-matching pass is still the same.
C15_LinksResolvedAsStated ==
  Returned =>
    \A b \in Range(multi.charts) : \A i \in DOMAIN builders[b].links :
      LET node == builders[b].links[i]
          was == multi.before[b].links[i]
      IN /\ node.target_chart_id # None
         /\ node.target_chart_id \in Range(multi.charts)
         /\ node.target_chart_id = registry[node.callee].chart
         /\ was.target_chart_id # None => node.target_chart_id = was.target_chart_id

\* The subflows reachable from the flows of S through one or more calls.
RECURSIVE Reachable(_, _, _)
Reachable(bs, S, k) ==
  LET called == UNION {Callees(bs, b) : b \in S}
  IN IF k = 0 THEN {} ELSE called \cup Reachable(bs, called, k - 1)
Reach(bs, root) == Reachable(bs, {root}, Cardinality(DOMAIN bs))

\* C16: multi_chart of a root returns a multi chart whose main chart is the
\* root's and whose charts are the root's chart and the chart of every subflow
\* reachable from the root, each once and no other, also when the calls form
\* a diamond or a cycle.
C16_TransitiveClosureAsStated ==
  multi.root # None =>
    /\ ~multi.raised
    /\ multi.main_chart_id = multi.root
    /\ Range(multi.charts) = {multi.root} \cup Reach(multi.before, multi.root)
    /\ \A i \in DOMAIN multi.charts, j \in DOMAIN multi.charts :
         multi.charts[i] = multi.charts[j] => i = j

\* C17: once all nested builds have returned, and before multi_chart is read,
\* no SubFlowNode of any built chart is left with a null target.
C17_PlaceholderFilledAsStated ==
  (build_stack = <<>> /\ multi.root = None) =>
    \A b \in DOMAIN builders : \A i \in DOMAIN builders[b].links :
      builders[b].links[i].target_chart_id # None

\* What is left to do.  For a body of statements: the statements not yet fed
\* to the assembler, each good for its own step and the steps that close the
\* construct it opens, and the constructs that are open.  For a body of
\* subflow calls: the subflows never built, each good for one activation with
\* all its call statements, the call statements left in the open activations,
\* and the reading of multi_chart.
RECURSIVE SumOf(_, _)
SumOf(f, S) ==
  IF S = {} THEN 0
  ELSE LET x == CHOOSE y \in S : TRUE IN f[x] + SumOf(f, S \ {x})
OpenWork(f) == IF f.kind = "if" /\ f.phase = "then" THEN 2 ELSE 1
StatementWork ==
  IF pc # "building" THEN 0
  ELSE 1 + 3 * (Budget(profile) - hist.stmts)
         + SumOf([i \in DOMAIN frames |-> OpenWork(frames[i])], DOMAIN frames)
SubflowWork ==
  (IF DOMAIN builders # {} /\ multi.root = None THEN 1 ELSE 0)
  + (MaxInvokes + 2) * Cardinality({s \in DOMAIN registry : registry[s].builds = 0})
  + SumOf([i \in DOMAIN build_stack |-> MaxInvokes + 1 - build_stack[i].n],
          DOMAIN build_stack)
Variant == StatementWork + SubflowWork
BuiltOnce == \A s \in DOMAIN registry : registry[s].builds <= 1
BoundedDepth == Len(build_stack) <= Cardinality(DOMAIN registry) + 1

\* C18: assembly always terminates.  Every step of the assembler strictly
\* decreases a natural-number measure of the work left, in which every
\* statement counts once (a loop, `while True` without break included, is
\* entered once and left once) and every subflow counts for one build; so no
\* run is infinite.  Whatever forward, self- or cyclic references the
\* subflows make, the body of each is processed at most once and the nesting
\* of builds never exceeds the number of subflows plus the root.
C18_AssemblyTerminates ==
  [][ /\ Variant' < Variant
      /\ Variant' >= 0
      /\ BuiltOnce'
      /\ BoundedDepth' ]_vars

\* A cycle flow_a -> flow_b -> flow_a with three call sites of flow_a was
\* assembled, and flow_a's body ran once.
C18_Witness ==
  /\ pc = "idle" /\ build_stack = <<>> /\ multi.root = None
  /\ Root \in DOMAIN builders
  /\ DOMAIN builders = {Root} \cup Subflows
  /\ "flow_a" \in Callees(builders, "flow_a")
  /\ "flow_a" \in Callees(builders, "flow_b")
  /\ "flow_b" \in Callees(builders, "flow_a")
  /\ "flow_a" \in Callees(builders, Root)
  /\ registry["flow_a"].builds = 1

\* The nodes that can be reached from the nodes of S along edges.
RECURSIVE Descendants(_, _)
Descendants(S, k) ==
  LET next == S \cup {edges[i].target_id : i \in {j \in DOMAIN edges : edges[j].source_id \in S}}
  IN IF k = 0 \/ next = S THEN S ELSE Descendants(next, k - 1)
LeadsTo(n, t) == t \in Descendants({n}, Len(nodes))
AutoEnd ==
  /\ Len(nodes) > last.nn
  /\ nodes[last.nn + 1] = IRNode("End", "End")
  /\ last.tgt = last.nn + 1

\* C19: when _build finishes, an End node is appended, and connected from
\* every entry of the frontier under the entry's label, exactly when the
\* frontier is not empty; with an empty frontier the chart is left as it is.
\* Hence every node at which a path runs off the end of the procedure leads
\* to the End node.
C19_AutoEndAsStated ==
  (pc = "done" /\ last.ev = "finish") =>
    /\ last.from # <<>> <=> AutoEnd
    /\ last.from = <<>> => Len(nodes) = last.nn /\ Len(edges) = last.ne
    /\ \A i \in DOMAIN last.from : EntryConnected(last.from[i], last.tgt)
    /\ \A n \in last.dead : LeadsTo(n, last.tgt)

\* C20: a break or continue met while no loop is open raises at once: the
\* build ends in the error state with the nodes, the edges and the frontier
\* as they were when the statement was met.  A break or continue that is
\* processed had an open loop, also from inside an if within the loop, and
\* the build goes on.
C20_MissingLoopContext ==
  /\ last.ev = "error" =>
       /\ pc = "error"
       /\ loop_stack = <<>>
       /\ Len(nodes) = last.nn
       /\ Len(edges) = last.ne
       /\ exits = last.from
  /\ last.ev = "continue" => pc = "building" /\ loop_stack # <<>>
  /\ last.ev = "break" => pc = "building" /\ last.stack # <<>>
  /\ (pc = "building" /\ loop_stack = <<>>) => last.ev \notin {"continue", "break"}

\* A break or continue outside any loop raised while the frontier held an
\* entry and the chart had edges.
C20_Witness ==
  /\ pc = "error" /\ last.ev = "error"
  /\ last.from # <<>>
  /\ last.ne > 0
  /\ prev.ev \in {"step", "call", "if"}

\* The chart's edges as a set.
EdgeSet == Range(edges)
\* The procedure was one tested loop whose body was one step, with no break.
OneLoopOneStep ==
  /\ pc = "done" /\ last.ev = "finish" /\ prev.ev = "whileEnd"
  /\ hist.stmts = 2 /\ hist.nsteps = 1
  /\ Len(prev.from) = 1
  /\ prev.from[1].is_def \/ prev.from[1].ref # prev.node

\* C21: Scenario B.  A procedure that is one pre-test loop with head decision
\* More? (yes Y, no N) and the single step P as its body, without break,
\* yields the nodes Start, More?, P, End and the edges Start -> More?
\* unlabelled, More? -> P under the label of the body's side, P -> More?
\* unlabelled and More? -> End under the label of the other side.
C21_ScenarioB ==
  OneLoopOneStep =>
    /\ Len(nodes) = 4
    /\ nodes[1].kind = "Start"
    /\ nodes[2] = IRNode("Decision", prev.def)
    /\ nodes[3].kind = "Process"
    /\ nodes[4] = IRNode("End", "End")
    /\ Len(edges) = 4
    /\ EdgeSet = {Edge(1, 2, None), Edge(2, 3, ThenLabel(prev)),
                  Edge(3, 2, None), Edge(2, 4, ElseLabel(prev))}

\* Scenario B itself: the head is the reusable decision with labels Y and N,
\* tested as written.
C21_Witness ==
  /\ OneLoopOneStep
  /\ prev.def = "d" /\ ~prev.neg
  /\ Edge(2, 3, "Y") \in EdgeSet
  /\ Edge(2, 4, "N") \in EdgeSet

\* The definitions hold no instance, and those they hold belong to the chart.
FreshDefs ==
  /\ ir_nodes = [x \in NodeDefs |-> <<>>]
  /\ current_ir_node = [x \in NodeDefs |-> 0]
  /\ ir_node = [x \in DecisionDefs |-> 0]
OwnInstances ==
  /\ \A x \in NodeDefs : \A i \in Range(ir_nodes[x]) :
       i \in DOMAIN nodes /\ nodes[i] = IRNode("Process", x)
  /\ \A x \in NodeDefs : current_ir_node[x] # 0 => current_ir_node[x] \in Range(ir_nodes[x])
  /\ \A x \in DecisionDefs : ir_node[x] # 0 =>
       ir_node[x] \in DOMAIN nodes /\ nodes[ir_node[x]] = IRNode("Decision", x)
  /\ \A i \in DOMAIN edges : {edges[i].source_id, edges[i].target_id} \subseteq DOMAIN nodes
RunStart == pc = "building" /\ last = NoEv

RECURSIVE RunAlone(_, _, _, _)
RunAlone(w, t, prog, i) ==
  IF i > Len(prog) \/ w.flows[t].pc # "building" THEN w
  ELSE RunAlone(W_statement(w, t, prog[i]), t, prog, i + 1)
Alone(t, prog) ==
  LET w == RunAlone(W_begin(World0, t), t, prog, 1)
  IN (IF w.flows[t].pc = "building" THEN W_finish(w, t) ELSE w).flows[t]
\* A chart up to the ids of its nodes: the labels in the order the nodes were
\* added, and the edges between the positions.
NodePos(f, id) == CHOOSE i \in DOMAIN f.nodes : f.nodes[i].id = id
Shape_of(f) ==
  [pc |-> f.pc,
   labels |-> [i \in DOMAIN f.nodes |-> f.nodes[i].label],
   edges |-> {<<NodePos(f, f.edges[i].source_id), NodePos(f, f.edges[i].target_id)>> :
                i \in DOMAIN f.edges}]

\* C23: two procedures over disjoint definitions are assembled concurrently.
\* Under every interleaving neither build fails, no chart ever holds a node of
\* the other procedure's reusable step, and each finished chart is the chart
\* the procedure gives when it is assembled alone.
C23_ConcurrentAssemblyAsStated ==
  \A t \in Threads :
    LET f == threads.flows[t]
    IN /\ f.pc # "error"
       /\ \A i \in DOMAIN f.nodes : f.nodes[i].label \notin ThreadDefs \ {OwnDef(t)}
       /\ f.pc = "done" => Shape_of(f) = Shape_of(Alone(t, f.prog))

\* ---------------------------------------------------------------- C24
\* The main chart the add_chart calls so far designate: the chart of the last
\* call with is_main = True that added a chart, else the first chart added.
MainOf(added) ==
  LET marked == {i \in DOMAIN added : added[i][2]}
  IN IF marked # {} THEN added[MaxOf(marked)][1]
     ELSE IF added = <<>> THEN None ELSE added[1][1]

\* C24: after any sequence of add_chart calls main_chart_id is the id of the
\* most recently added chart with is_main = True if there is one, otherwise
\* the id of the first chart added; it is unset only while the container is
\* empty and always names a contained chart; an add_chart with an id that is
\* already present raises ValueError and changes neither the chart map nor
\* the main designation.
C24_MainChart ==
  mfc.op # "none" =>
    /\ mfc.main_chart_id = MainOf(mfc.added)
    /\ (mfc.main_chart_id = None) <=> (mfc.charts = <<>>)
    /\ mfc.main_chart_id # None => mfc.main_chart_id \in Range(mfc.charts)
    /\ Range(mfc.charts) = DOMAIN mfc.body
    /\ mfc.op = "add_chart" =>
         IF mfc.args[1] \in Range(mfc.before.charts)
         THEN mfc.raised /\ Contents(mfc) = mfc.before
         ELSE /\ ~mfc.raised
              /\ mfc.charts = Append(mfc.before.charts, mfc.args[1])

\* A second chart was added with is_main = True after an unmarked first one,
\* a chart was re-targeted, and then an id that is present was added again.
C24_Witness ==
  /\ mfc.op = "add_chart"
  /\ mfc.raised
  /\ Len(mfc.added) = 2
  /\ ~mfc.added[1][2]
  /\ mfc.added[2][2]
  /\ mfc.main_chart_id = mfc.added[2][1]
  /\ mfc.body[mfc.args[1]] # ChartOf(mfc.args[1])

\* ---------------------------------------------------------------- C25
\* C25: link_charts raises and changes nothing if the source chart, the target
\* chart or the source node is absent; otherwise the node keeps its id and
\* metadata, is a SubFlowNode whose target is the target chart, its label is
\* replaced only if one is given, and the node ids and the edge list of the
\* source chart are unchanged, so every edge still names existing nodes.
C25_LinkCharts ==
  mfc.op = "link_charts" =>
    LET s == mfc.args[1]
        n == mfc.args[2]
        t == mfc.args[3]
        label == mfc.args[4]
        b == mfc.before
        absent == \/ s \notin Range(b.charts)
                  \/ t \notin Range(b.charts)
                  \/ n \notin DOMAIN b.body[s].nodes
    IN IF absent THEN mfc.raised /\ Contents(mfc) = b
       ELSE LET old == b.body[s]
                new == mfc.body[s]
            IN /\ ~mfc.raised
               /\ mfc.charts = b.charts
               /\ mfc.main_chart_id = b.main_chart_id
               /\ \A c \in DOMAIN b.body \ {s} : mfc.body[c] = b.body[c]
               /\ DOMAIN new.nodes = DOMAIN old.nodes
               /\ new.edges = old.edges
               /\ \A x \in DOMAIN old.nodes \ {n} : new.nodes[x] = old.nodes[x]
               /\ new.nodes[n].id = old.nodes[n].id
               /\ new.nodes[n].metadata = old.nodes[n].metadata
               /\ new.nodes[n].kind = "SubFlowNode"
               /\ new.nodes[n].target_chart_id = t
               /\ new.nodes[n].label # old.nodes[n].label => label # None
               /\ label \notin {None, ""} => new.nodes[n].label = label
               /\ \A i \in DOMAIN new.edges :
                    {new.edges[i].source_id, new.edges[i].target_id}
                      \subseteq DOMAIN new.nodes

\* A ProcessNode that has an outgoing edge was turned into a link to another
\* chart, with a label.
C25_Witness ==
  /\ mfc.op = "link_charts"
  /\ ~mfc.raised
  /\ mfc.args[1] # mfc.args[3]
  /\ mfc.args[4] = "L"
  /\ mfc.before.body[mfc.args[1]].nodes[mfc.args[2]].kind = "ProcessNode"
  /\ mfc.body[mfc.args[1]].nodes[mfc.args[2]].kind = "SubFlowNode"

\* ---------------------------------------------------------------- C27
\* C27: step() raises RuntimeError while there is no current node; at an
\* EndNode or a node without outgoing edge it changes neither the current node
\* nor the history; at a node with exactly one outgoing edge the current node
\* becomes that edge's target and the target's id is appended to the history;
\* at a node with more than one outgoing edge it raises ValueError.
C27_StepContract ==
  runner.op = "step" =>
    LET b == runner.before
        chart == runner.flowchart
        out == SelectSeq(chart.edges, LAMBDA e : e[1] = b.current_node)
        same == /\ runner.current_node = b.current_node
                /\ runner.history = b.history
    IN IF b.current_node = None THEN runner.raised = "RuntimeError" /\ same
       ELSE IF chart.kind[b.current_node] = "EndNode" \/ out = <<>>
       THEN runner.raised = None /\ same
       ELSE IF Len(out) = 1
       THEN /\ runner.raised = None
            /\ runner.current_node = out[1][2]
            /\ runner.history = Append(b.history, out[1][2])
       ELSE runner.raised = "ValueError"

\* A step moved along the only outgoing edge of the current node, as the
\* third visit or later.
C27_Witness ==
  /\ runner.op = "step"
  /\ runner.raised = None
  /\ runner.current_node # runner.before.current_node
  /\ runner.history = Append(runner.before.history, runner.current_node)
  /\ Len(runner.history) >= 3

\* ---------------------------------------------------------------- C26
\* The call sites of a key, and the <<predecessor, label>> pairs they were
\* reached from.
SitesOf(key) ==
  {i \in DOMAIN ast_builder.sites : ast_builder.sites[i].key = key}
Predecessors(key) ==
  UNION {Range(ast_builder.sites[i].frontier) : i \in SitesOf(key)}

\* C26: with shared_nodes = True all call statements with the same call key
\* are one Process node, created at the first call site, and it receives the
\* incoming edges of every call site (k call sites reached from k distinct
\* predecessors give k incoming edges); with shared_nodes = False every call
\* statement creates a new Process node.
C26_SharedCalls ==
  ast_builder.op # "none" =>
    LET b == ast_builder
    IN \A i \in DOMAIN b.sites :
         LET site == b.sites[i]
             first == MinOf(SitesOf(site.key))
             node == b.sites[first].node
         IN /\ b.nodes[site.node].kind = "ProcessNode"
            /\ IF b.shared_nodes
               THEN /\ site.node = node
                    /\ site.created <=> i = first
                    /\ node = b.sites[first].nn + 1
                    /\ \A x \in Range(site.frontier) :
                         HasEdge(b.edges, x[1], node, x[2])
                    /\ \A e \in InEdges(b.edges, node) :
                         <<b.edges[e].source_id, b.edges[e].label>>
                           \in Predecessors(site.key)
                    /\ Cardinality(InEdges(b.edges, node))
                         = Cardinality(Predecessors(site.key))
               ELSE /\ site.created
                    /\ site.node = site.nn + 1
                    /\ \A j \in DOMAIN b.sites : j # i => b.sites[j].node # site.node

\* In shared mode a key was called at two sites, each reached from another
\* predecessor, and its one node has two incoming edges; another key was called too.
C26_Witness ==
  /\ ast_builder.op # "none"
  /\ ast_builder.shared_nodes
  /\ ast_builder.pc = "done"
  /\ \E i \in DOMAIN ast_builder.sites :
       LET site == ast_builder.sites[i]
       IN /\ Cardinality(SitesOf(site.key)) = 2
          /\ Cardinality({ast_builder.sites[j].frontier[1][1] : j \in SitesOf(site.key)}) = 2
          /\ Cardinality(InEdges(ast_builder.edges, site.node)) = 2
          /\ \E j \in DOMAIN ast_builder.sites : ast_builder.sites[j].key # site.key

\* ---------------------------------------------------------------- C28
\* C28: in a chart built by StaticFlowBuilder no End node ever has an outgoing
\* edge, whatever the sequence of node / decision / loop / end calls.
C28_EndHasNoOutgoingAsStated ==
  static_builder.op # "none" =>
    \A n \in DOMAIN static_builder.nodes :
      static_builder.nodes[n].kind = "EndNode"
        => OutEdges(static_builder.edges, n) = {}

\* ---------------------------------------------------------------- C29
\* The nodes that decision() calls made.
DecisionCalls == {n \in DOMAIN tracer.made : tracer.made[n].by = "decision"}

\* C29: each decision(question, result) call creates a new Decision node with
\* exactly one outgoing edge, which goes to the next recorded node (or to the
\* End node) and is labelled Yes if result is true and No otherwise, also when
\* the decision is the last thing traced in a loop iteration, where the edge
\* leads back to the loop head.
C29_DecisionEdgeAsStated ==
  tracer.op # "none" =>
    \A n \in DecisionCalls :
      LET out == OutEdges(tracer.edges, n)
      IN /\ tracer.nodes[n].kind = "DecisionNode"
         /\ Cardinality(out) <= 1
         /\ tracer.pc = "done" => Cardinality(out) = 1
         /\ \A e \in out :
              /\ tracer.edges[e].label =
                   (IF tracer.made[n].result THEN "Yes" ELSE "No")
              /\ \/ tracer.edges[e].target_id = n + 1
                 \/ tracer.made[tracer.edges[e].target_id].by = "until"

\* ---------------------------------------------------------------- C30
\* C30: a loop driven by until(cond, ...) whose iterations call node() with
\* the same label has one loop-head Decision node and one body node, made on
\* the first pass; later passes add back-edges only.
C30_LoopNodesOnceAsStated ==
  tracer.op # "none" =>
    /\ \A m, n \in DOMAIN tracer.made :
         (/\ m < n
          /\ tracer.made[m].by = "node" /\ tracer.made[n].by = "node"
          /\ tracer.made[m].loop # 0 /\ tracer.made[m].loop = tracer.made[n].loop
          /\ tracer.made[m].iteration # tracer.made[n].iteration)
           => tracer.nodes[m].label # tracer.nodes[n].label
    /\ \A n \in DOMAIN tracer.made :
         tracer.made[n].by = "until"
           => \/ tracer.made[n].loop = 0
              \/ tracer.nodes[tracer.made[n].loop].label # tracer.nodes[n].label


\* ---------------------------------------------------------------- C31
\* The fields of a graph that a round trip keeps: the name, the nodes (id,
\* kind, label, metadata, target) and the edges (source, target, label,
\* condition) in their order.
GraphShape(g) ==
  [name |-> g.name,
   nodes |-> [i \in DOMAIN g.nodes |->
                [id |-> g.nodes[i].id, kind |-> g.nodes[i].kind,
                 label |-> g.nodes[i].label, metadata |-> g.nodes[i].metadata,
                 target |-> g.nodes[i].target_chart_id]],
   edges |-> [i \in DOMAIN g.edges |->
                [source |-> g.edges[i].source_id, target |-> g.edges[i].target_id,
                 label |-> g.edges[i].label, condition |-> g.edges[i].condition]]]

\* The navigation edges that multi_to_dict put into the entry of chart c.
CrossEdgesOf(data, c) ==
  {i \in DOMAIN data.charts[c].edges :
     <<"crossChart", TRUE>> \in data.charts[c].edges[i].metadata}

\* C31: from_dict(to_dict(g)) is a graph with the name, the nodes (id, kind,
\* label, metadata, SubFlowNode target) and the edge sequence (source,
\* target, label, condition) of g; multi_from_dict(multi_to_dict(M)) keeps
\* in addition every graph id and the main graph id, and no navigation edge
\* of multi_to_dict is an edge of a reconstructed graph.
C31_RoundTrip ==
  /\ ret.op = "from_dict" =>
       /\ ~ret.result.raised
       /\ GraphShape(ret.result) = GraphShape(mfc.body[ret.chart])
  /\ ret.op = "multi_from_dict" =>
       /\ ~ret.result.raised
       /\ ret.result.charts = mfc.charts
       /\ ret.result.main_chart_id = mfc.main_chart_id
       /\ \A c \in Range(mfc.charts) :
            /\ ret.result.body[c].id = c
            /\ GraphShape(ret.result.body[c]) = GraphShape(mfc.body[c])
            /\ \A i \in CrossEdgesOf(ret.data, c) :
                 ~\E j \in DOMAIN ret.result.body[c].edges :
                    LET e == ret.result.body[c].edges[j]
                        x == ret.data.charts[c].edges[i]
                    IN /\ e.source_id = x.source /\ e.target_id = x.target
                       /\ e.label = x.label

\* Two graphs with all three edges came back from multi_from_dict, and the
\* dict they came from had a navigation edge from one graph into the other
\* and one from a graph to its own start node.
C31_Witness ==
  /\ ret.op = "multi_from_dict"
  /\ Len(mfc.charts) = 2
  /\ \A c \in Range(mfc.charts) : Len(mfc.body[c].edges) = 3
  /\ \E c \in Range(mfc.charts) :
       /\ CrossEdgesOf(ret.data, c) # {}
       /\ mfc.body[c].nodes[2].target_chart_id # c
  /\ \E c \in Range(mfc.charts) :
       /\ CrossEdgesOf(ret.data, c) # {}
       /\ mfc.body[c].nodes[2].target_chart_id = c
  /\ mfc.main_chart_id = mfc.charts[2]


\* ---------------------------------------------------------------- C40
\* The last call on the runner is one that the interface rejects.
ShouldFail ==
  \/ /\ runner.op = "start" /\ runner.arg = None
     /\ \A n \in DOMAIN runner.flowchart.kind :
          runner.flowchart.kind[n] # "StartNode"
  \/ /\ runner.op = "start" /\ runner.arg # None
     /\ runner.arg \notin DOMAIN runner.flowchart.kind
  \/ /\ runner.op = "step" /\ runner.before.current_node # None
     /\ Len(SelectSeq(runner.flowchart.edges,
                      LAMBDA e : e[1] = runner.before.current_node)) > 1
  \/ /\ runner.op = "choose_path"
     /\ runner.arg >= Len(SelectSeq(runner.flowchart.edges,
                            LAMBDA e : e[1] = runner.before.current_node))

\* C40: start() on a chart without a Start node and start(id) with an
\* unknown id raise ValueError, also on a runner that was started before;
\* step() at a node with several outgoing edges raises ValueError;
\* choose_path() with an index out of range raises IndexError; and after
\* each of them current_node and history are what they were before the call.
C40_FailuresAtomicAsStated ==
  (runner.op # "none" /\ ShouldFail) =>
    /\ runner.raised = IF runner.op = "choose_path" THEN "IndexError"
                       ELSE "ValueError"
    /\ runner.current_node = runner.before.current_node
    /\ runner.history = runner.before.history


\* ---------------------------------------------------------------- C37
\* C37: when a decision block with only a yes branch (no no block, or an
\* empty one) has ended, the node that the next node / end / decision / loop
\* call creates has an edge from the Decision node with the label No.
C37_FallThroughAsStated ==
  [][(/\ static_builder.op = "decision_exit"
      /\ static_builder.closed.only_yes
      /\ static_builder'.op \in {"node", "end", "decision", "loop"})
     => HasEdge(static_builder'.edges, static_builder.closed.decision,
                Len(static_builder.nodes) + 1, "No")]_vars

\* ---------------------------------------------------------------- C38
\* C38: an edge carries a label exactly when it leaves a Decision node (into
\* a branch, a loop body or past the loop): no edge between other nodes has
\* a label, and every edge that leaves a loop's Decision node has one.
C38_LabelsAsStated ==
  static_builder.op # "none" =>
    \A i \in DOMAIN static_builder.edges :
      LET e == static_builder.edges[i]
          source == static_builder.nodes[e.source_id]
      IN /\ e.label # None => source.kind = "DecisionNode"
         /\ (source.kind = "DecisionNode" /\ source.label = "More?")
              => e.label # None


\* ---------------------------------------------------------------- C39
\* C39: the statement that follows a break or continue in the same block
\* gets no edge from the path that reached the break or continue.
C39_JumpLeavesBodyAsStated ==
  [][(/\ ast_builder.op \in {"break", "continue"}
      /\ ast_builder'.op \in {"call", "return", "if", "while"})
     => \A i \in DOMAIN ast_builder'.edges :
          \A x \in Range(ast_builder.current_exits) :
            ast_builder'.edges[i].source_id = x[1]
              => \E j \in DOMAIN ast_builder.edges :
                   ast_builder.edges[j] = ast_builder'.edges[i]]_vars


\* ---------------------------------------------------------------- C32
\* C32: the edges into a call site of a reusable step and the edge out of it
\* are attached to one instance; hence, when every call site is reached,
\* every instance of the step in the finished chart has an incoming edge.
C32_OneInstancePerSiteAsStated ==
  \A def \in NodeDefs :
    (pc = "done" /\ calls.unreached[def] = 0) =>
      \A n \in Instances(def) : InEdges(edges, n) # {}


\* ---------------------------------------------------------------- C33
\* C33: every if and every tested while adds a Decision node of its own to
\* the chart, also when its condition is a reusable decision definition that
\* an earlier construct of the procedure has used.
C33_OwnDecisionNodeAsStated ==
  [][(hist'.stmts = hist.stmts + 1 /\ last'.ev \in {"if", "while"})
     => /\ Len(nodes') = Len(nodes) + 1
        /\ nodes'[Len(nodes')].kind = "Decision"
        /\ last'.node = Len(nodes')]_vars

\* ---------------------------------------------------------------- C34
\* C34: every edge that leaves a Decision node carries the yes label or the
\* no label of that decision.
C34_DecisionEdgesLabelledAsStated ==
  \A i \in DOMAIN edges :
    LET source == nodes[edges[i].source_id]
    IN source.kind = "Decision" =>
         edges[i].label \in {yes_label(source.label), no_label(source.label)}


\* ---------------------------------------------------------------- C36
\* C36: an if or while whose condition invokes no decision is not processed
\* against a decision that an earlier statement opened, and when the
\* assembly has ended the decision stack is empty.
C36_NoStaleContextAsStated ==
  /\ last.ev \notin {"ifPlain", "whilePlain"}
  /\ pc = "done" => decision_stack = <<>>


\* ---------------------------------------------------------------- C35
\* C35: a subflow built in the middle of p's assembly raises no error in
\* either build, and when it has returned p's current context, p's frontier
\* and the instance state of the reusable steps are what they were before.
C35_NestedBuildIsolatedAsStated ==
  /\ \A t \in Threads : threads.flows[t].pc # "error"
  /\ (ret.op = "ensure_built" /\ ret.returned) => ret.after = ret.before
====
